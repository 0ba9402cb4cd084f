--------------------------- MODULE KeyspaceProofs ---------------------------
(***************************************************************************)
(* Theorems of Keyspace: what expired stays away, and master and replica   *)
(* lose a key in the right order, for any keys, durations, dump files and  *)
(* clocks.                                                                 *)
(*                                                                         *)
(* The last SET for a key under way (Matches), or, once it arrived, the    *)
(* entry of the replica (Follows), is compared with the entry of the       *)
(* master.  The two differ in when the duration of the SET began.          *)
(***************************************************************************)
EXTENDS Keyspace, TLAPS

Entries == [value : Int, expire : Nat]
Message == [type : {"FILE"}] \cup [type : {"SET"}, key : Key, value : Nat, px : Px]

TypeInv ==
    /\ now \in Nat /\ now > 0 /\ nsets \in Nat
    /\ file \in [Key -> Entries]
    /\ store \in [Node -> [Key -> Entries]]
    /\ joined \in BOOLEAN /\ wentBack \in BOOLEAN
    /\ link \in Seq(Message)
    /\ denied \subseteq Node \X Key
    /\ source \in [Key -> {"file", "pushed", "missed"}]
    /\ own \subseteq Key

SetOf(i, k) == link[i].type = "SET" /\ link[i].key = k
LastSet(i, k) == SetOf(i, k) /\ \A j \in DOMAIN link : j > i => ~ SetOf(j, k)
FileUnderWay == link # <<>> /\ link[1].type = "FILE"

(* The file comes first and once; before it, the replica has only what its *)
(* own file had.                                                           *)
LinkInv ==
    /\ ~ joined => link = <<>>
    /\ \A i \in DOMAIN link : i > 1 => link[i].type = "SET"
    /\ ~ joined \/ FileUnderWay => \A k \in Key \ own : store["replica"][k] = None

(* What the master has from the file it has as it is there, or lost it.    *)
FileInv ==
    \A k \in Key : source[k] = "file" =>
        /\ \A i \in DOMAIN link : ~ SetOf(i, k)
        /\ \/ store["master"][k] = file[k]
           \/ store["master"][k] = None /\ file[k].expire # 0

(* A pushed SET is not overtaken by the file.                              *)
PushInv ==
    \A k \in Key : source[k] = "pushed" =>
        joined /\ (FileUnderWay => \E i \in DOMAIN link : SetOf(i, k))

(* The last SET of a key under way carries what the master has, and its    *)
(* duration begins no earlier than it did on the master.                   *)
Matches(m, e) ==
    /\ m.px = 0 => e = Entry(m.value, 0)
    /\ m.px # 0 => e = None \/ e.expire # 0
    /\ m.px # 0 /\ ~ wentBack /\ e # None => e.value = m.value /\ e.expire <= now + m.px
MatchInv ==
    \A k \in Key : \A i \in DOMAIN link :
        source[k] # "missed" /\ LastSet(i, k) => Matches(link[i], store["master"][k])

(* The replica's entry r expires no earlier than the master's entry e, and *)
(* never only if e never does, except for an entry of the replica's own.   *)
Follows(k, r, e) ==
    /\ k \notin own /\ r # None /\ r.expire = 0 => e = r
    /\ ~ wentBack /\ e # None /\ (e.expire = 0 \/ now < e.expire) =>
          /\ r # None /\ r.value = e.value
          /\ IF e.expire = 0 THEN r.expire = 0 ELSE r.expire >= e.expire
FollowInv ==
    \A k \in Key : Settled(k) => Follows(k, store["replica"][k], store["master"][k])

DeniedInv == \A d \in denied : store[d[1]][d[2]] = None

Inv == TypeInv /\ LinkInv /\ FileInv /\ PushInv /\ MatchInv /\ FollowInv /\ DeniedInv

-----------------------------------------------------------------------------
(* Both servers have the keys they have, and nothing else in the store.    *)
LEMMA StoreTyped ==
  ASSUME TypeInv, NEW k \in Key, NEW n \in Node
  PROVE  /\ store[n] \in [Key -> Entries] /\ store[n][k] \in Entries
         /\ store[n][k].expire \in Nat /\ store[n][k].value \in Int
  BY DEF TypeInv, Entries

(* What RDBParser restores is what the file has or what was there.         *)
LEMMA RestoredTyped ==
  ASSUME NEW f \in [Key -> Entries], NEW s \in [Key -> Entries]
  PROVE  Restored(f, s) \in [Key -> Entries]
  BY DEF Restored

(* A server starts with what the file has and has not expired.             *)
LEMMA InitKeeps == Init => Inv
  <1> SUFFICES ASSUME Init PROVE Inv
    OBVIOUS
  <1>1. file \in [Key -> Entries]
    BY KeyspaceAssumption DEF Init, Entries
  <1>2. Empty \in [Key -> Entries] /\ \A k \in Key : Empty[k] = None
    BY DEF Empty, None, Entries
  <1>0. PICK f \in OwnDump :
          /\ store = [n \in Node |-> Restored(IF n = "master" THEN file ELSE f, Empty)]
          /\ own = Loaded(f)
    BY DEF Init
  <1>3. /\ store["master"] = Restored(file, Empty) /\ store["replica"] = Restored(f, Empty)
        /\ store["master"] \in [Key -> Entries] /\ store["replica"] \in [Key -> Entries]
        /\ \A k \in Key \ own : store["replica"][k] = None
    <2>1. f \in [Key -> Entries]
      BY KeyspaceAssumption DEF Entries
    <2>2. store["master"] = Restored(file, Empty) /\ store["replica"] = Restored(f, Empty)
      BY <1>0 DEF Node
    <2>3. \A k \in Key \ own : Restored(f, Empty)[k] = None
      BY <1>0, <1>2 DEF Restored
    <2> QED BY <1>1, <1>2, <2>1, <2>2, <2>3, RestoredTyped
  <1>4. TypeInv
    <2>1. store \in [Node -> [Key -> Entries]]
      BY <1>0, <1>3 DEF Node
    <2>2. source \in [Key -> {"file", "pushed", "missed"}]
      BY DEF Init
    <2>3. link \in Seq(Message) /\ now \in Nat /\ now > 0 /\ nsets \in Nat
      BY DEF Init
    <2>4. denied \subseteq Node \X Key /\ joined \in BOOLEAN /\ wentBack \in BOOLEAN
      BY DEF Init
    <2>5. own \subseteq Key
      BY <1>0 DEF Loaded
    <2> QED BY <1>1, <2>1, <2>2, <2>3, <2>4, <2>5 DEF TypeInv
  <1>5. LinkInv /\ PushInv /\ MatchInv /\ FollowInv /\ DeniedInv
    BY <1>3 DEF Init, LinkInv, PushInv, MatchInv, FollowInv, DeniedInv, Settled
  <1>6. FileInv
    <2> SUFFICES ASSUME NEW k \in Key
                 PROVE  \/ store["master"][k] = file[k]
                        \/ store["master"][k] = None /\ file[k].expire # 0
      BY DEF Init, FileInv
    <2> QED BY <1>2, <1>3 DEF Restored, Loaded, Unexpired
  <1> QED BY <1>4, <1>5, <1>6 DEF Inv

(* StorageMiddleware::set puts the SET behind what is under way.           *)
LEMMA SetKeeps ==
  ASSUME Inv, NEW k \in Key, NEW px \in Px, Set(k, px)
  PROVE  Inv'
  <1> DEFINE m == Construct(k, nsets', px)
             e == Entry(nsets', ExpireTime(px))
  <1>1. /\ TypeInv /\ LinkInv /\ FileInv /\ PushInv /\ MatchInv /\ FollowInv /\ DeniedInv
        /\ px \in Nat /\ now \in Nat /\ now > 0 /\ nsets \in Nat /\ link \in Seq(Message)
    BY KeyspaceAssumption DEF Inv, TypeInv
  <1>2. /\ now' = now /\ file' = file /\ joined' = joined /\ wentBack' = wentBack
        /\ nsets' = nsets + 1
        /\ store' = [store EXCEPT !["master"][k] = e]
        /\ link' = IF joined THEN Append(link, m) ELSE link
        /\ denied' = denied \ {<<"master", k>>}
        /\ source' = [source EXCEPT ![k] = IF joined THEN "pushed" ELSE "missed"]
        /\ own' = own
    BY DEF Set
  <1>3. m \in Message /\ m.type = "SET" /\ m.key = k /\ m.value = nsets' /\ m.px = px
    BY <1>1, <1>2 DEF Construct, Message
  <1>4. e \in Entries /\ e.value = nsets' /\ e.expire = ExpireTime(px)
    BY <1>1, <1>2 DEF Entry, Entries, ExpireTime
  <1>5. /\ store'["replica"] = store["replica"]
        /\ store'["master"] = [store["master"] EXCEPT ![k] = e]
        /\ store'["master"][k] = e
        /\ \A l \in Key : l # k => store'["master"][l] = store["master"][l]
    BY <1>1, <1>2 DEF TypeInv, Node
  <1>6. /\ source'[k] = IF joined THEN "pushed" ELSE "missed"
        /\ \A l \in Key : l # k => source'[l] = source[l]
    BY <1>1, <1>2 DEF TypeInv
  <1>7. ASSUME joined
        PROVE  /\ DOMAIN link' = 1..Len(link) + 1 /\ DOMAIN link = 1..Len(link)
               /\ Len(link) \in Nat /\ link'[Len(link) + 1] = m
               /\ \A i \in DOMAIN link : link'[i] = link[i]
    BY <1>1, <1>2, <1>3, <1>7
  <1>8. ASSUME ~ joined
        PROVE  link' = <<>> /\ DOMAIN link' = {} /\ link = link'
    BY <1>1, <1>2, <1>8 DEF LinkInv
  <1>9. TypeInv'
    <2>1. store' \in [Node -> [Key -> Entries]]
      BY <1>1, <1>2, <1>4 DEF TypeInv
    <2>2. link' \in Seq(Message)
      BY <1>1, <1>2, <1>3
    <2> QED BY <1>1, <1>2, <2>1, <2>2 DEF TypeInv
  <1>10. LinkInv'
    <2>1. CASE joined
      <3>1. \A i \in DOMAIN link' : i > 1 => link'[i].type = "SET"
        BY <1>1, <1>3, <1>7, <2>1 DEF LinkInv
      <3>2. FileUnderWay' => FileUnderWay
        BY <1>1, <1>3, <1>7, <2>1 DEF FileUnderWay
      <3> QED BY <1>1, <1>2, <1>5, <2>1, <3>1, <3>2 DEF LinkInv
    <2>2. CASE ~ joined
      BY <1>1, <1>2, <1>5, <1>8, <2>2 DEF LinkInv
    <2> QED BY <2>1, <2>2
  <1>11. FileInv'
    <2> SUFFICES ASSUME NEW l \in Key, source'[l] = "file"
                 PROVE  /\ \A i \in DOMAIN link' : ~ SetOf(i, l)'
                        /\ \/ store'["master"][l] = file[l]
                           \/ store'["master"][l] = None /\ file[l].expire # 0
      BY <1>2 DEF FileInv
    <2>1. l # k /\ source[l] = "file"
      BY <1>6
    <2>2. \A i \in DOMAIN link' : ~ SetOf(i, l)'
      BY <1>1, <1>3, <1>7, <1>8, <2>1 DEF FileInv, SetOf
    <2> QED BY <1>1, <1>5, <2>1, <2>2 DEF FileInv
  <1>12. PushInv'
    <2> SUFFICES ASSUME NEW l \in Key, source'[l] = "pushed"
                 PROVE  /\ joined
                        /\ FileUnderWay' => \E i \in DOMAIN link' : SetOf(i, l)'
      BY <1>2 DEF PushInv
    <2>1. joined
      BY <1>1, <1>6 DEF PushInv
    <2>2. CASE l = k
      <3>1. PICK i \in DOMAIN link' : link'[i] = m
        BY <1>7, <2>1
      <3> QED BY <1>3, <2>1, <2>2, <3>1 DEF SetOf
    <2>3. CASE l # k
      <3>1. source[l] = "pushed"
        BY <1>6, <2>3
      <3>2. FileUnderWay' => FileUnderWay
        BY <1>1, <1>3, <1>7, <2>1 DEF FileUnderWay
      <3>3. \A i \in DOMAIN link : i \in DOMAIN link' /\ (SetOf(i, l) => SetOf(i, l)')
        BY <1>7, <2>1 DEF SetOf
      <3> QED BY <1>1, <2>1, <3>1, <3>2, <3>3 DEF PushInv
    <2> QED BY <2>2, <2>3
  <1>13. MatchInv'
    <2> SUFFICES ASSUME NEW l \in Key, NEW i \in DOMAIN link', source'[l] # "missed", LastSet(i, l)'
                 PROVE  Matches(link[i], store["master"][l])'
      BY DEF MatchInv
    <2>1. joined
      BY <1>8
    <2>2. CASE l = k
      <3>1. i = Len(link) + 1
        BY <1>3, <1>7, <2>1, <2>2 DEF LastSet, SetOf
      <3> QED BY <1>1, <1>2, <1>3, <1>4, <1>5, <1>7, <2>1, <2>2, <3>1
              DEF Matches, Entry, ExpireTime, None
    <2>3. CASE l # k
      <3>1. i \in DOMAIN link /\ link'[i] = link[i]
        BY <1>3, <1>7, <2>1, <2>3 DEF LastSet, SetOf
      <3>2. LastSet(i, l)
        BY <1>7, <2>1, <3>1 DEF LastSet, SetOf
      <3>3. Matches(link[i], store["master"][l])
        BY <1>1, <1>6, <2>3, <3>1, <3>2 DEF MatchInv
      <3> QED BY <1>2, <1>5, <2>3, <3>1, <3>3 DEF Matches
    <2> QED BY <2>2, <2>3
  <1>14. FollowInv'
    <2> SUFFICES ASSUME NEW l \in Key, Settled(l)'
                 PROVE  Follows(l, store["replica"][l], store["master"][l])'
      BY DEF FollowInv
    <2>1. joined
      BY <1>2 DEF Settled
    <2>2. l # k
      BY <1>3, <1>7, <2>1 DEF Settled
    <2>3. Settled(l)
      BY <1>2, <1>6, <1>7, <2>1, <2>2 DEF Settled
    <2>4. Follows(l, store["replica"][l], store["master"][l])
      BY <1>1, <2>3 DEF FollowInv
    <2> QED BY <1>2, <1>5, <2>2, <2>4 DEF Follows
  <1>15. DeniedInv'
    <2> SUFFICES ASSUME NEW d \in denied, d # <<"master", k>>
                 PROVE  store'[d[1]][d[2]] = None
      BY <1>2 DEF DeniedInv
    <2>1. d[1] \in Node /\ d[2] \in Key /\ d = <<d[1], d[2]>>
      BY <1>1 DEF TypeInv
    <2>2. CASE d[1] = "replica"
      BY <1>1, <1>5, <2>2 DEF DeniedInv
    <2>3. CASE d[1] = "master"
      <3>1. d[2] # k
        BY <2>1, <2>3
      <3>2. store'["master"][d[2]] = store["master"][d[2]]
        BY <1>5, <2>1, <3>1
      <3> QED BY <1>1, <2>3, <3>2 DEF DeniedInv
    <2> QED BY <2>1, <2>2, <2>3 DEF Node
  <1> QED BY <1>9, <1>10, <1>11, <1>12, <1>13, <1>14, <1>15 DEF Inv

(* Storage::get takes away what has expired on one of the two.             *)
LEMMA GetKeeps ==
  ASSUME Inv, NEW n \in Node, NEW k \in Key, Get(n, k)
  PROVE  Inv'
  <1>1. /\ TypeInv /\ LinkInv /\ FileInv /\ PushInv /\ MatchInv /\ FollowInv /\ DeniedInv
    BY DEF Inv
  <1>2. /\ now' = now /\ file' = file /\ joined' = joined /\ wentBack' = wentBack
        /\ nsets' = nsets /\ link' = link /\ source' = source
        /\ store' = IF Expired(n, k) THEN [store EXCEPT ![n][k] = None] ELSE store
        /\ denied' = IF Live(n, k) THEN denied ELSE denied \cup {<<n, k>>}
        /\ own' = own
    BY DEF Get
  <1>3. None \in Entries /\ None.expire = 0
    BY DEF None, Entries
  <1>4. /\ store' \in [Node -> [Key -> Entries]]
        /\ \A s \in Node, l \in Key :
              \/ store'[s][l] = store[s][l]
              \/ Expired(s, l) /\ store'[s][l] = None
    <2>1. CASE Expired(n, k)
      BY <1>1, <1>2, <1>3, <2>1 DEF TypeInv
    <2>2. CASE ~ Expired(n, k)
      BY <1>1, <1>2, <2>2 DEF TypeInv
    <2> QED BY <2>1, <2>2
  <1>5. "master" \in Node /\ "replica" \in Node
    BY DEF Node
  <1>6. TypeInv'
    <2>1. denied' \subseteq Node \X Key
      BY <1>1, <1>2 DEF TypeInv
    <2> QED BY <1>1, <1>2, <1>4, <2>1 DEF TypeInv
  <1>7. LinkInv'
    BY <1>1, <1>2, <1>4, <1>5 DEF LinkInv, FileUnderWay
  <1>8. FileInv'
    <2> SUFFICES ASSUME NEW l \in Key, source[l] = "file"
                 PROVE  /\ \A i \in DOMAIN link : ~ SetOf(i, l)
                        /\ \/ store'["master"][l] = file[l]
                           \/ store'["master"][l] = None /\ file[l].expire # 0
      BY <1>2 DEF FileInv, SetOf
    <2> QED BY <1>1, <1>3, <1>4, <1>5 DEF FileInv, Expired
  <1>9. PushInv'
    BY <1>1, <1>2 DEF PushInv, SetOf, FileUnderWay
  <1>10. MatchInv'
    <2> SUFFICES ASSUME NEW l \in Key, NEW i \in DOMAIN link, source[l] # "missed", LastSet(i, l)
                 PROVE  Matches(link[i], store["master"][l])'
      BY <1>2 DEF MatchInv, LastSet, SetOf
    <2>1. Matches(link[i], store["master"][l])
      BY <1>1 DEF MatchInv
    <2>2. CASE store'["master"][l] = store["master"][l]
      BY <1>2, <2>1, <2>2 DEF Matches
    <2>3. CASE Expired("master", l) /\ store'["master"][l] = None
      <3>1. link[i].px # 0
        BY <2>1, <2>3 DEF Matches, Entry, Expired
      <3> QED BY <1>2, <2>3, <3>1 DEF Matches
    <2> QED BY <1>4, <1>5, <2>2, <2>3
  <1>11. FollowInv'
    <2> SUFFICES ASSUME NEW l \in Key, Settled(l)
                 PROVE  Follows(l, store["replica"][l], store["master"][l])'
      BY <1>2 DEF FollowInv, Settled
    <2> DEFINE r == store["replica"][l]
               e == store["master"][l]
    <2>1. Follows(l, r, e)
      BY <1>1 DEF FollowInv
    <2>2. r.expire \in Nat /\ e.expire \in Nat /\ now \in Nat
      BY <1>1, <1>5, StoreTyped DEF TypeInv
    <2>3. r' = r \/ (r' = None /\ r.expire # 0 /\ now >= r.expire)
      <3>1. r' = r \/ (Expired("replica", l) /\ r' = None)
        BY <1>4, <1>5
      <3> QED BY <3>1 DEF Expired
    <2>4. e' = e \/ (e' = None /\ e.expire # 0 /\ now >= e.expire)
      <3>1. e' = e \/ (Expired("master", l) /\ e' = None)
        BY <1>4, <1>5
      <3> QED BY <3>1 DEF Expired
    <2>5. l \notin own /\ r' # None /\ r'.expire = 0 => e' = r'
      BY <2>1, <2>3, <2>4 DEF Follows
    <2>6. ASSUME ~ wentBack, e' # None, e'.expire = 0 \/ now < e'.expire
          PROVE  /\ r' # None /\ r'.value = e'.value
                 /\ IF e'.expire = 0 THEN r'.expire = 0 ELSE r'.expire >= e'.expire
      <3>1. e' = e
        BY <2>4, <2>6
      <3>2. /\ r # None /\ r.value = e.value
            /\ IF e.expire = 0 THEN r.expire = 0 ELSE r.expire >= e.expire
        BY <2>1, <2>6, <3>1 DEF Follows
      <3>3. r' = r
        BY <2>2, <2>3, <2>6, <3>1, <3>2
      <3> QED BY <3>1, <3>2, <3>3
    <2> QED BY <1>2, <2>5, <2>6 DEF Follows
  <1>12. DeniedInv'
    <2> SUFFICES ASSUME NEW d \in denied \cup {<<n, k>>}, d \in denied \/ ~ Live(n, k)
                 PROVE  store'[d[1]][d[2]] = None
      BY <1>2 DEF DeniedInv
    <2>1. d[1] \in Node /\ d[2] \in Key
      BY <1>1 DEF TypeInv
    <2>2. CASE d \in denied
      BY <1>1, <1>4, <2>1, <2>2 DEF DeniedInv
    <2>3. CASE d = <<n, k>> /\ ~ Live(n, k)
      <3>1. store'[n][k] = None
        BY <1>1, <1>2, <2>3 DEF Live, TypeInv
      <3> QED BY <2>3, <3>1
    <2> QED BY <2>2, <2>3
  <1> QED BY <1>6, <1>7, <1>8, <1>9, <1>10, <1>11, <1>12 DEF Inv

(* PSYNC puts the file on a link that carried nothing so far.              *)
LEMMA PsyncKeeps ==
  ASSUME Inv, Psync
  PROVE  Inv'
  <1>1. /\ TypeInv /\ LinkInv /\ FileInv /\ PushInv /\ MatchInv /\ FollowInv /\ DeniedInv
    BY DEF Inv
  <1>2. /\ now' = now /\ file' = file /\ joined' = TRUE /\ wentBack' = wentBack /\ ~ joined
        /\ nsets' = nsets /\ store' = store /\ source' = source /\ denied' = denied
        /\ link' = <<[type |-> "FILE"]>> /\ own' = own
    BY DEF Psync
  <1>3. DOMAIN link' = {1} /\ link'[1].type = "FILE" /\ link' \in Seq(Message) /\ link' # <<>>
    BY <1>2 DEF Message
  <1>4. TypeInv'
    BY <1>1, <1>2, <1>3 DEF TypeInv
  <1>5. LinkInv'
    BY <1>1, <1>2, <1>3 DEF LinkInv
  <1>6. FileInv'
    BY <1>1, <1>2, <1>3 DEF FileInv, SetOf
  <1>7. PushInv'
    BY <1>1, <1>2 DEF PushInv
  <1>8. MatchInv'
    BY <1>3 DEF MatchInv, LastSet, SetOf
  <1>9. FollowInv'
    BY <1>3 DEF FollowInv, Settled
  <1>10. DeniedInv'
    BY <1>1, <1>2 DEF DeniedInv
  <1> QED BY <1>4, <1>5, <1>6, <1>7, <1>8, <1>9, <1>10 DEF Inv

(* The clock goes on: what expired stays expired, and what a SET under way *)
(* would give the replica expires later than before.                       *)
LEMMA TickKeeps ==
  ASSUME Inv, Tick
  PROVE  Inv'
  <1>1. /\ TypeInv /\ LinkInv /\ FileInv /\ PushInv /\ MatchInv /\ FollowInv /\ DeniedInv
    BY DEF Inv
  <1>2. /\ now' = now + 1 /\ file' = file /\ joined' = joined /\ wentBack' = wentBack
        /\ nsets' = nsets /\ store' = store /\ link' = link /\ source' = source
        /\ denied' = denied /\ own' = own
    BY DEF Tick
  <1>3. now \in Nat /\ now > 0
    BY <1>1 DEF TypeInv
  <1>4. TypeInv'
    BY <1>1, <1>2 DEF TypeInv
  <1>5. LinkInv' /\ FileInv' /\ PushInv' /\ DeniedInv'
    BY <1>1, <1>2 DEF LinkInv, FileInv, PushInv, DeniedInv, FileUnderWay, SetOf
  <1>6. MatchInv'
    <2> SUFFICES ASSUME NEW l \in Key, NEW i \in DOMAIN link, source[l] # "missed", LastSet(i, l)
                 PROVE  Matches(link[i], store["master"][l])'
      BY <1>2 DEF MatchInv, LastSet, SetOf
    <2>1. Matches(link[i], store["master"][l])
      BY <1>1 DEF MatchInv
    <2>2. link[i].px \in Nat
      <3>1. link[i] \in Message /\ link[i].type = "SET"
        BY <1>1 DEF TypeInv, LastSet, SetOf
      <3> QED BY <3>1, KeyspaceAssumption DEF Message
    <2>3. store["master"][l].expire \in Nat
      BY <1>1, StoreTyped DEF Node
    <2> QED BY <1>2, <1>3, <2>1, <2>2, <2>3 DEF Matches
  <1>7. FollowInv'
    <2> SUFFICES ASSUME NEW l \in Key, Settled(l)
                 PROVE  Follows(l, store["replica"][l], store["master"][l])'
      BY <1>2 DEF FollowInv, Settled
    <2>1. Follows(l, store["replica"][l], store["master"][l])
      BY <1>1 DEF FollowInv
    <2>2. store["master"][l].expire \in Nat
      BY <1>1, StoreTyped DEF Node
    <2> QED BY <1>2, <1>3, <2>1, <2>2 DEF Follows
  <1> QED BY <1>4, <1>5, <1>6, <1>7 DEF Inv

(* A clock that was set back promises nothing of times any more; what      *)
(* never expires still agrees.                                             *)
LEMMA SetClockBackKeeps ==
  ASSUME Inv, SetClockBack
  PROVE  Inv'
  <1>1. /\ TypeInv /\ LinkInv /\ FileInv /\ PushInv /\ MatchInv /\ FollowInv /\ DeniedInv
    BY DEF Inv
  <1>2. /\ now' \in 1..now - 1 /\ file' = file /\ joined' = joined /\ wentBack' = TRUE
        /\ nsets' = nsets /\ store' = store /\ link' = link /\ source' = source
        /\ denied' = denied /\ own' = own
    BY DEF SetClockBack
  <1>3. now' \in Nat /\ now' > 0
    BY <1>1, <1>2 DEF TypeInv
  <1>4. TypeInv'
    BY <1>1, <1>2, <1>3 DEF TypeInv
  <1>5. LinkInv' /\ FileInv' /\ PushInv' /\ DeniedInv'
    BY <1>1, <1>2 DEF LinkInv, FileInv, PushInv, DeniedInv, FileUnderWay, SetOf
  <1>6. MatchInv'
    BY <1>1, <1>2 DEF MatchInv, LastSet, SetOf, Matches
  <1>7. FollowInv'
    BY <1>1, <1>2 DEF FollowInv, Settled, Follows
  <1> QED BY <1>4, <1>5, <1>6, <1>7 DEF Inv

(* What is left of the link when its first message is read.                *)
LEMMA TailOf ==
  ASSUME TypeInv, LinkInv, link # <<>>, link' = Tail(link)
  PROVE  /\ Head(link) = link[1] /\ link[1] \in Message /\ 1 \in DOMAIN link
         /\ link' \in Seq(Message)
         /\ \A i \in DOMAIN link' : i > 0 /\ i + 1 \in DOMAIN link /\ link'[i] = link[i + 1]
         /\ \A i \in DOMAIN link : i > 1 => i - 1 \in DOMAIN link' /\ link'[i - 1] = link[i]
         /\ \A i \in DOMAIN link : i \in Nat /\ i > 0
         /\ \A i \in DOMAIN link' : i \in Nat /\ link'[i].type = "SET"
  <1>1. link \in Seq(Message) /\ Len(link) \in Nat /\ Len(link) > 0 /\ DOMAIN link = 1..Len(link)
    BY DEF TypeInv
  <1>2. /\ Tail(link) \in Seq(Message) /\ Len(Tail(link)) = Len(link) - 1
        /\ \A i \in 1..Len(link) - 1 : Tail(link)[i] = link[i + 1]
    BY <1>1
  <1>3. DOMAIN link' = 1..Len(link) - 1
    BY <1>1, <1>2
  <1>4. \A i \in DOMAIN link' : i > 0 /\ i + 1 \in DOMAIN link /\ link'[i] = link[i + 1]
    BY <1>1, <1>2, <1>3
  <1>5. \A i \in DOMAIN link' : i \in Nat /\ link'[i].type = "SET"
    BY <1>1, <1>3, <1>4 DEF LinkInv
  <1> QED BY <1>1, <1>2, <1>3, <1>4, <1>5

(* RDBParser loads the file a replica asked for: nothing of the keys the   *)
(* master has from the file is under way, so the replica follows it.       *)
LEMMA FileKeeps ==
  ASSUME Inv, Receive, Head(link).type = "FILE"
  PROVE  Inv'
  <1>1. /\ TypeInv /\ LinkInv /\ FileInv /\ PushInv /\ MatchInv /\ FollowInv /\ DeniedInv
    BY DEF Inv
  <1>2. /\ now' = now /\ file' = file /\ joined' = joined /\ wentBack' = wentBack
        /\ nsets' = nsets /\ source' = source /\ link # <<>> /\ link' = Tail(link)
        /\ store' = [store EXCEPT !["replica"] = Restored(file, @)]
        /\ own' = own \ Loaded(file)
        /\ denied' = {d \in denied :
                        d[1] = "replica" => store'["replica"][d[2]] = store["replica"][d[2]]}
    BY DEF Receive
  <1>3. /\ Head(link) = link[1] /\ link[1] \in Message /\ 1 \in DOMAIN link
        /\ link' \in Seq(Message)
        /\ \A i \in DOMAIN link' : i > 0 /\ i + 1 \in DOMAIN link /\ link'[i] = link[i + 1]
        /\ \A i \in DOMAIN link : i > 1 => i - 1 \in DOMAIN link' /\ link'[i - 1] = link[i]
        /\ \A i \in DOMAIN link : i \in Nat /\ i > 0
        /\ \A i \in DOMAIN link' : i \in Nat /\ link'[i].type = "SET"
    BY <1>1, <1>2, TailOf
  <1>4. "master" \in Node /\ "replica" \in Node /\ joined /\ FileUnderWay
    BY <1>1, <1>2, <1>3 DEF Node, LinkInv, FileUnderWay
  <1>5. /\ store' \in [Node -> [Key -> Entries]]
        /\ store'["replica"] = Restored(file, store["replica"]) /\ store'["master"] = store["master"]
    <2>1. store["replica"] \in [Key -> Entries] /\ store \in [Node -> [Key -> Entries]]
      BY <1>1, <1>4 DEF TypeInv
    <2>2. Restored(file, store["replica"]) \in [Key -> Entries]
      BY <1>1, <2>1, RestoredTyped DEF TypeInv
    <2> QED BY <1>2, <1>4, <2>1, <2>2 DEF Node
  <1>6. TypeInv'
    <2>1. denied' \subseteq Node \X Key
      BY <1>1, <1>2 DEF TypeInv
    <2> QED BY <1>1, <1>2, <1>3, <1>5, <2>1 DEF TypeInv
  <1>7. ~ FileUnderWay'
    <2> SUFFICES ASSUME link' # <<>> PROVE link'[1].type # "FILE"
      BY DEF FileUnderWay
    <2>1. 1 \in DOMAIN link'
      BY <1>3
    <2> QED BY <1>3, <2>1
  <1>8. LinkInv'
    BY <1>2, <1>3, <1>4, <1>7 DEF LinkInv
  <1>9. FileInv'
    BY <1>1, <1>2, <1>3, <1>5 DEF FileInv, SetOf
  <1>10. PushInv'
    BY <1>1, <1>2, <1>7 DEF PushInv
  <1>11. MatchInv'
    <2> SUFFICES ASSUME NEW l \in Key, NEW i \in DOMAIN link', source[l] # "missed", LastSet(i, l)'
                 PROVE  Matches(link[i], store["master"][l])'
      BY <1>2 DEF MatchInv
    <2>1. i \in Nat /\ i + 1 \in DOMAIN link /\ link'[i] = link[i + 1]
      BY <1>3
    <2>2. LastSet(i + 1, l)
      <3>1. SetOf(i + 1, l)
        BY <2>1 DEF LastSet, SetOf
      <3>2. ASSUME NEW j \in DOMAIN link, j > i + 1
            PROVE  ~ SetOf(j, l)
        <4>1. j \in Nat /\ j - 1 > i /\ j - 1 \in DOMAIN link' /\ link'[j - 1] = link[j]
          BY <1>3, <2>1, <3>2
        <4> QED BY <4>1 DEF LastSet, SetOf
      <3> QED BY <3>1, <3>2 DEF LastSet
    <2>3. Matches(link[i + 1], store["master"][l])
      BY <1>1, <2>1, <2>2 DEF MatchInv
    <2> QED BY <1>2, <1>5, <2>1, <2>3 DEF Matches
  <1>12. FollowInv'
    <2> SUFFICES ASSUME NEW l \in Key, Settled(l)'
                 PROVE  Follows(l, store["replica"][l], store["master"][l])'
      BY DEF FollowInv
    <2>1. \A i \in DOMAIN link : ~ SetOf(i, l)
      <3> SUFFICES ASSUME NEW i \in DOMAIN link, SetOf(i, l) PROVE FALSE
        OBVIOUS
      <3>1. i > 1
        BY <1>3 DEF SetOf
      <3>2. i - 1 \in DOMAIN link' /\ link'[i - 1] = link[i]
        BY <1>3, <3>1
      <3> QED BY <3>2 DEF Settled, SetOf
    <2>2. source[l] = "file"
      <3>1. source[l] # "missed"
        BY <1>2 DEF Settled
      <3> QED BY <1>1, <1>4, <2>1, <3>1 DEF PushInv, TypeInv
    <2>3. \/ store["master"][l] = file[l]
          \/ store["master"][l] = None /\ file[l].expire # 0
      BY <1>1, <2>2 DEF FileInv
    <2>4. (l \notin own => store["replica"][l] = None) /\ None.expire = 0
      BY <1>1, <1>4 DEF LinkInv, None
    <2>6. file[l].expire \in Nat /\ now \in Nat
      BY <1>1 DEF TypeInv, Entries
    <2>7. store'["master"][l] = store["master"][l]
      BY <1>5
    <2>8. CASE l \in Loaded(file)
      <3>1. store'["replica"][l] = file[l] /\ file[l] # None /\ Unexpired(file[l])
        BY <1>5, <2>8 DEF Restored, Loaded
      <3> QED BY <1>2, <2>3, <2>4, <2>6, <2>7, <3>1 DEF Follows, Unexpired
    <2>9. CASE l \notin Loaded(file)
      <3>1. /\ store'["replica"][l] = store["replica"][l]
            /\ l \in own' <=> l \in own
        BY <1>2, <1>5, <2>9 DEF Restored
      <3>2. file[l] = None \/ ~ Unexpired(file[l])
        BY <2>9 DEF Loaded
      <3> QED BY <1>2, <2>3, <2>4, <2>6, <2>7, <3>1, <3>2 DEF Follows, Unexpired
    <2> QED BY <2>8, <2>9
  <1>13. DeniedInv'
    <2> SUFFICES ASSUME NEW d \in denied,
                        d[1] = "replica" => store'["replica"][d[2]] = store["replica"][d[2]]
                 PROVE  store'[d[1]][d[2]] = None
      BY <1>2 DEF DeniedInv
    <2>1. d[1] \in Node
      BY <1>1 DEF TypeInv
    <2> QED BY <1>1, <1>5, <2>1 DEF DeniedInv, Node
  <1> QED BY <1>6, <1>8, <1>9, <1>10, <1>11, <1>12, <1>13 DEF Inv

(* ReplicaTalker::process runs a SET; if it is the last one for its key,   *)
(* the replica follows the master from there on.                           *)
LEMMA PushedSetKeeps ==
  ASSUME Inv, Receive, Head(link).type = "SET"
  PROVE  Inv'
  <1> DEFINE k == link[1].key
             r == Entry(link[1].value, ExpireTime(link[1].px))
  <1>1. /\ TypeInv /\ LinkInv /\ FileInv /\ PushInv /\ MatchInv /\ FollowInv /\ DeniedInv
    BY DEF Inv
  <1>2. /\ now' = now /\ file' = file /\ joined' = joined /\ wentBack' = wentBack
        /\ nsets' = nsets /\ source' = source /\ link # <<>> /\ link' = Tail(link)
        /\ denied' = {d \in denied :
                        d[1] = "replica" => store'["replica"][d[2]] = store["replica"][d[2]]}
        /\ own' = own \ {Head(link).key}
    BY DEF Receive
  <1>3. /\ Head(link) = link[1] /\ link[1] \in Message /\ 1 \in DOMAIN link
        /\ link' \in Seq(Message)
        /\ \A i \in DOMAIN link' : i > 0 /\ i + 1 \in DOMAIN link /\ link'[i] = link[i + 1]
        /\ \A i \in DOMAIN link : i > 1 => i - 1 \in DOMAIN link' /\ link'[i - 1] = link[i]
        /\ \A i \in DOMAIN link : i \in Nat /\ i > 0
        /\ \A i \in DOMAIN link' : i \in Nat /\ link'[i].type = "SET"
    BY <1>1, <1>2, TailOf
  <1>4. /\ "master" \in Node /\ "replica" \in Node /\ joined /\ ~ FileUnderWay
        /\ \A i \in DOMAIN link : link[i].type = "SET"
    <2>1. link[1].type = "SET"
      BY <1>3
    <2>2. \A i \in DOMAIN link : i > 1 => link[i].type = "SET"
      BY <1>1 DEF LinkInv
    <2> QED BY <1>1, <1>2, <1>3, <2>1, <2>2 DEF Node, LinkInv, FileUnderWay
  <1>5. /\ k \in Key /\ link[1].value \in Nat /\ link[1].px \in Nat
        /\ now \in Nat /\ now > 0
    BY <1>1, <1>3, <1>4, KeyspaceAssumption DEF Message, TypeInv
  <1>6. /\ r.value = link[1].value /\ r.expire = ExpireTime(link[1].px)
        /\ ExpireTime(link[1].px) \in Nat /\ r \in Entries
    BY <1>5 DEF Entry, Entries, ExpireTime
  <1>7. store' = [store EXCEPT !["replica"] = [@ EXCEPT ![k] = r]]
    BY <1>3, <1>4 DEF Receive
  <1>8. /\ store' \in [Node -> [Key -> Entries]] /\ store'["master"] = store["master"]
        /\ store'["replica"][k] = r
        /\ \A l \in Key : l # k => store'["replica"][l] = store["replica"][l]
    BY <1>1, <1>4, <1>5, <1>6, <1>7 DEF TypeInv, Node
  <1>9. TypeInv'
    <2>1. denied' \subseteq Node \X Key
      BY <1>1, <1>2 DEF TypeInv
    <2> QED BY <1>1, <1>2, <1>3, <1>8, <2>1 DEF TypeInv
  <1>10. ~ FileUnderWay'
    <2> SUFFICES ASSUME link' # <<>> PROVE link'[1].type # "FILE"
      BY DEF FileUnderWay
    <2>1. 1 \in DOMAIN link'
      BY <1>3
    <2> QED BY <1>3, <2>1
  <1>11. LinkInv'
    BY <1>2, <1>3, <1>4, <1>10 DEF LinkInv
  <1>12. FileInv'
    BY <1>1, <1>2, <1>3, <1>8 DEF FileInv, SetOf
  <1>13. PushInv'
    BY <1>1, <1>2, <1>10 DEF PushInv
  <1>14. MatchInv'
    <2> SUFFICES ASSUME NEW l \in Key, NEW i \in DOMAIN link', source[l] # "missed", LastSet(i, l)'
                 PROVE  Matches(link[i], store["master"][l])'
      BY <1>2 DEF MatchInv
    <2>1. i \in Nat /\ i + 1 \in DOMAIN link /\ link'[i] = link[i + 1]
      BY <1>3
    <2>2. LastSet(i + 1, l)
      <3>1. SetOf(i + 1, l)
        BY <2>1 DEF LastSet, SetOf
      <3>2. ASSUME NEW j \in DOMAIN link, j > i + 1
            PROVE  ~ SetOf(j, l)
        <4>1. j \in Nat /\ j - 1 > i /\ j - 1 \in DOMAIN link' /\ link'[j - 1] = link[j]
          BY <1>3, <2>1, <3>2
        <4> QED BY <4>1 DEF LastSet, SetOf
      <3> QED BY <3>1, <3>2 DEF LastSet
    <2>3. Matches(link[i + 1], store["master"][l])
      BY <1>1, <2>1, <2>2 DEF MatchInv
    <2> QED BY <1>2, <1>8, <2>1, <2>3 DEF Matches
  <1>15. FollowInv'
    <2> SUFFICES ASSUME NEW l \in Key, Settled(l)'
                 PROVE  Follows(l, store["replica"][l], store["master"][l])'
      BY DEF FollowInv
    <2>1. source[l] # "missed" /\ \A i \in DOMAIN link : i > 1 => link[i].key # l
      <3>1. \A i \in DOMAIN link' : link'[i].key # l
        BY DEF Settled
      <3>2. ASSUME NEW i \in DOMAIN link, i > 1
            PROVE  link[i].key # l
        <4>1. i - 1 \in DOMAIN link' /\ link'[i - 1] = link[i]
          BY <1>3, <3>2
        <4>2. link'[i - 1].key # l
          BY <3>1, <4>1
        <4> QED BY <4>1, <4>2
      <3>3. source[l] # "missed"
        BY <1>2 DEF Settled
      <3> QED BY <3>2, <3>3
    <2>2. CASE l = k
      <3>1. LastSet(1, l)
        BY <1>3, <1>4, <2>1, <2>2 DEF LastSet, SetOf
      <3>2. Matches(link[1], store["master"][l])
        BY <1>1, <1>3, <2>1, <3>1 DEF MatchInv
      <3>3. store'["replica"][l] = r /\ store'["master"][l] = store["master"][l]
        BY <1>8, <2>2
      <3>4. store["master"][l].expire \in Nat
        BY <1>1, <1>4, StoreTyped
      <3>5. CASE link[1].px = 0
        <4>1. store["master"][l] = r
          BY <3>2, <3>5 DEF Matches, ExpireTime
        <4> QED BY <1>6, <3>3, <3>4, <4>1 DEF Follows
      <3>6. CASE link[1].px # 0
        <4>1. r.expire = now + link[1].px /\ r.expire # 0 /\ r # None
          BY <1>5, <1>6, <3>6 DEF ExpireTime, None
        <4>2. ~ wentBack /\ store["master"][l] # None =>
                 /\ store["master"][l].value = r.value /\ store["master"][l].expire # 0
                 /\ r.expire >= store["master"][l].expire
          BY <1>5, <1>6, <3>2, <3>4, <3>6, <4>1 DEF Matches
        <4> QED BY <1>2, <3>3, <4>1, <4>2 DEF Follows
      <3> QED BY <3>5, <3>6
    <2>3. CASE l # k
      <3>1. Settled(l)
        BY <1>3, <1>4, <2>1, <2>3 DEF Settled
      <3>2. Follows(l, store["replica"][l], store["master"][l])
        BY <1>1, <3>1 DEF FollowInv
      <3>3. l \in own' <=> l \in own
        BY <1>2, <1>3, <2>3
      <3> QED BY <1>2, <1>8, <2>3, <3>2, <3>3 DEF Follows
    <2> QED BY <2>2, <2>3
  <1>16. DeniedInv'
    <2> SUFFICES ASSUME NEW d \in denied,
                        d[1] = "replica" => store'["replica"][d[2]] = store["replica"][d[2]]
                 PROVE  store'[d[1]][d[2]] = None
      BY <1>2 DEF DeniedInv
    <2>1. d[1] \in Node
      BY <1>1 DEF TypeInv
    <2> QED BY <1>1, <1>8, <2>1 DEF DeniedInv, Node
  <1> QED BY <1>9, <1>11, <1>12, <1>13, <1>14, <1>15, <1>16 DEF Inv

-----------------------------------------------------------------------------
(* Every step keeps the invariant.                                         *)
LEMMA InvStep == Inv /\ [Next]_vars => Inv'
  <1> SUFFICES ASSUME Inv, [Next]_vars PROVE Inv'
    OBVIOUS
  <1>1. ASSUME NEW k \in Key, NEW px \in Px, Set(k, px) PROVE Inv'
    BY <1>1, SetKeeps
  <1>2. ASSUME NEW n \in Node, NEW k \in Key, Get(n, k) PROVE Inv'
    BY <1>2, GetKeeps
  <1>3. CASE Psync
    BY <1>3, PsyncKeeps
  <1>4. CASE Receive
    <2>1. Head(link).type \in {"FILE", "SET"}
      <3>1. Head(link) \in Message
        BY <1>4, TailOf DEF Inv, Receive
      <3> QED BY <3>1 DEF Message
    <2> QED BY <1>4, <2>1, FileKeeps, PushedSetKeeps
  <1>5. CASE Tick
    BY <1>5, TickKeeps
  <1>6. CASE SetClockBack
    BY <1>6, SetClockBackKeeps
  <1>7. CASE UNCHANGED vars
    BY <1>7 DEF vars, Inv, TypeInv, LinkInv, FileInv, PushInv, MatchInv, FollowInv, DeniedInv,
                FileUnderWay, LastSet, SetOf, Matches, Follows, Settled
  <1> QED BY <1>1, <1>2, <1>3, <1>4, <1>5, <1>6, <1>7 DEF Next

(* Inv holds in every reachable state.                                     *)
THEOREM InvCorrect == Spec => []Inv
  BY InitKeeps, InvStep, PTL DEF Spec

(* A key GET found nothing for is found again only once it was written.    *)
THEOREM DeniedCorrect == Spec => []DeniedStaysDenied
  <1>1. Inv => DeniedStaysDenied
    BY DEF Inv, DeniedInv, DeniedStaysDenied, Live
  <1> QED BY <1>1, InvCorrect, PTL

(* The replica does not lose a key before the master does.                 *)
THEOREM NotLostCorrect == Spec => []NotLostBefore
  <1>1. Inv => NotLostBefore
    <2> SUFFICES ASSUME Inv, ~ wentBack, NEW k \in Key, Settled(k), Live("master", k)
                 PROVE  /\ Live("replica", k)
                        /\ store["replica"][k].value = store["master"][k].value
      BY DEF NotLostBefore
    <2>1. Follows(k, store["replica"][k], store["master"][k])
      BY DEF Inv, FollowInv
    <2>2. now \in Nat /\ store["master"][k].expire \in Nat /\ store["replica"][k].expire \in Nat
      BY StoreTyped DEF Inv, TypeInv, Node
    <2>3. /\ store["master"][k] # None
          /\ store["master"][k].expire = 0 \/ now < store["master"][k].expire
      BY <2>2 DEF Live, Expired
    <2> QED BY <2>1, <2>2, <2>3 DEF Follows, Live, Expired
  <1> QED BY <1>1, InvCorrect, PTL

(* What the replica has from its master and keeps for ever, the master     *)
(* keeps for ever, whatever either server had in its own dump file.        *)
THEOREM ExpiresCorrect == Spec => []ExpiresThereToo
  <1>1. Inv => ExpiresThereToo
    BY DEF Inv, FollowInv, Follows, ExpiresThereToo
  <1> QED BY <1>1, InvCorrect, PTL
=============================================================================
