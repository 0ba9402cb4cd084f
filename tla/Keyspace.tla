------------------------------ MODULE Keyspace ------------------------------
(***************************************************************************)
(* The strings of Storage and when they expire, on a master and on a       *)
(* replica of it: SET with PX, GET, the dump file each server loads when   *)
(* it starts, a replica too, the file the master sends to the replica,     *)
(* which is merged with what it has, and the SETs that are pushed.         *)
(*                                                                         *)
(* A string expires at a time of the system clock, which may be set back.  *)
(* A pushed SET says how long, not until when.  Both servers see one       *)
(* clock.                                                                  *)
(***************************************************************************)
EXTENDS Integers, Sequences, SequencesExt

CONSTANTS
    Key,
    Px,           \* the PX arguments of SET, 0 for none
    Dump,         \* what may be in the master's dump file, [Key -> Entry]
    OwnDump,      \* what may be in the replica's own dump file
    MaxSets,      \* bound: how many SETs there are
    MaxNow        \* bound: how far the clock goes

ASSUME KeyspaceAssumption ==
    /\ Px \subseteq Nat
    /\ Dump \cup OwnDump \subseteq [Key -> [value : Int, expire : Nat]]
    /\ MaxSets \in Nat /\ MaxNow \in Nat

Node == {"master", "replica"}
None == [value |-> 0, expire |-> 0]
Entry(value, expire) == [value |-> value, expire |-> expire]

VARIABLES
    now,          \* the system clock
    file,         \* the master's dump file, which the code never writes
    store,        \* _storage of each server
    joined,       \* the replica sent PSYNC
    link,         \* what the master sent and the replica has not read
    nsets,        \* how many SETs there were
    wentBack,     \* history: the clock was set back
    denied,       \* history: the keys GET last found nothing for
    source,       \* history: where the master has a key from
    own           \* history: the keys the replica had from its own dump file
                  \* and nothing from the master has replaced

vars == <<now, file, store, joined, link, nsets, wentBack, denied, source, own>>

(* RDBParser leaves out what has expired in a file; restore writes the     *)
(* rest over the store, and takes nothing out of it.                       *)
Unexpired(entry) == entry.expire = 0 \/ entry.expire > now
Loaded(f) == {k \in Key : f[k] # None /\ Unexpired(f[k])}
Restored(f, s) == [k \in Key |-> IF k \in Loaded(f) THEN f[k] ELSE s[k]]

(* main loads the dump file before it asks whether the server is a replica. *)
Empty == [k \in Key |-> None]

Init ==
    /\ now = 1
    /\ file \in Dump
    /\ \E f \in OwnDump :
          /\ store = [n \in Node |-> Restored(IF n = "master" THEN file ELSE f, Empty)]
          /\ own = Loaded(f)
    /\ joined = FALSE /\ link = <<>> /\ nsets = 0
    /\ wentBack = FALSE /\ denied = {} /\ source = [k \in Key |-> "file"]

-----------------------------------------------------------------------------
(* Storage::set: PX counts from the clock of the server that runs it.      *)
ExpireTime(px) == IF px = 0 THEN 0 ELSE now + px

(* SetCommand::construct, as the replica parses it.                        *)
ConstructWithoutPx(k, value, px) == [type |-> "SET", key |-> k, value |-> value, px |-> 0]
Construct(k, value, px) == [type |-> "SET", key |-> k, value |-> value, px |-> px]

(* StorageMiddleware::set                                                  *)
SetPushedAhead(k, px) ==
    /\ nsets < MaxSets /\ nsets' = nsets + 1
    /\ store' = [store EXCEPT !["master"][k] = Entry(nsets', ExpireTime(px))]
    /\ link' = IF joined THEN <<Construct(k, nsets', px)>> \o link ELSE link
    /\ denied' = denied \ {<<"master", k>>}
    /\ source' = [source EXCEPT ![k] = IF joined THEN "pushed" ELSE "missed"]
    /\ UNCHANGED <<now, file, joined, wentBack, own>>

Set(k, px) ==
    /\ nsets < MaxSets /\ nsets' = nsets + 1
    /\ store' = [store EXCEPT !["master"][k] = Entry(nsets', ExpireTime(px))]
    /\ link' = IF joined THEN Append(link, Construct(k, nsets', px)) ELSE link
    /\ denied' = denied \ {<<"master", k>>}
    /\ source' = [source EXCEPT ![k] = IF joined THEN "pushed" ELSE "missed"]
    /\ UNCHANGED <<now, file, joined, wentBack, own>>

(* Storage::get erases what it finds expired.                              *)
Expired(n, k) == store[n][k].expire # 0 /\ now >= store[n][k].expire
Live(n, k) == store[n][k] # None /\ ~ Expired(n, k)

GetKeeping(n, k) ==
    /\ denied' = IF Live(n, k) THEN denied ELSE denied \cup {<<n, k>>}
    /\ UNCHANGED <<now, file, store, joined, link, nsets, wentBack, source, own>>

Get(n, k) ==
    /\ store' = IF Expired(n, k) THEN [store EXCEPT ![n][k] = None] ELSE store
    /\ denied' = IF Live(n, k) THEN denied ELSE denied \cup {<<n, k>>}
    /\ UNCHANGED <<now, file, joined, link, nsets, wentBack, source, own>>

-----------------------------------------------------------------------------
(* PSYNC is answered with the dump file as it is on the disk, whatever the *)
(* master has in its storage by then.                                      *)
Psync ==
    /\ ~ joined /\ joined' = TRUE
    /\ link' = <<[type |-> "FILE"]>>
    /\ UNCHANGED <<now, file, store, nsets, wentBack, denied, source, own>>

(* ReplicaTalker: the file, then the SETs.                                 *)
Receive ==
    LET m == Head(link)
    IN  /\ link # <<>> /\ link' = Tail(link)
        /\ store' = [store EXCEPT !["replica"] =
                        IF m.type = "FILE" THEN Restored(file, @)
                        ELSE [@ EXCEPT ![m.key] = Entry(m.value, ExpireTime(m.px))]]
        /\ own' = own \ (IF m.type = "FILE" THEN Loaded(file) ELSE {m.key})
        /\ denied' = {d \in denied : d[1] = "replica" => store'["replica"][d[2]] = store["replica"][d[2]]}
        /\ UNCHANGED <<now, file, joined, nsets, wentBack, source>>

Tick ==
    /\ now < MaxNow /\ now' = now + 1
    /\ UNCHANGED <<file, store, joined, link, nsets, wentBack, denied, source, own>>

SetClockBack ==
    /\ now > 1 /\ now' \in 1..now - 1 /\ wentBack' = TRUE
    /\ UNCHANGED <<file, store, joined, link, nsets, denied, source, own>>

Next ==
    \/ \E k \in Key, px \in Px : Set(k, px)
    \/ \E n \in Node, k \in Key : Get(n, k)
    \/ Psync \/ Receive \/ Tick \/ SetClockBack

Spec == Init /\ [][Next]_vars

-----------------------------------------------------------------------------
(* Properties.                                                             *)

(* A key GET found nothing for is found again only once it was written,    *)
(* though it was never erased by time itself and the clock may go back to  *)
(* before it expired.                                                      *)
DeniedStaysDenied == \A d \in denied : ~ Live(d[1], d[2])

(* The master has a key from the file or from a SET it pushed, and nothing *)
(* about it is under way.                                                  *)
Settled(k) ==
    /\ joined /\ source[k] # "missed"
    /\ \A i \in DOMAIN link : link[i].type = "SET" /\ link[i].key # k

(* The replica does not lose a key before the master does, as long as the  *)
(* clock is not set back: what GET returns on the master it returns on the *)
(* replica.                                                                *)
NotLostBefore ==
    ~ wentBack => \A k \in Key : Settled(k) /\ Live("master", k) =>
        Live("replica", k) /\ store["replica"][k].value = store["master"][k].value

(* What the replica has from its master, by the file or by a SET, and      *)
(* keeps for ever, the master keeps for ever, whatever the clock does.     *)
(* What it has from its own dump file and the master never sent stays with *)
(* it: the master's file is merged, and the replica is never flushed.      *)
ExpiresThereToo ==
    \A k \in Key \ own :
        Settled(k) /\ store["replica"][k] # None /\ store["replica"][k].expire = 0 =>
            store["master"][k] = store["replica"][k]
=============================================================================
