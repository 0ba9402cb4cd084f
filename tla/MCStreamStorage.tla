--------------------------- MODULE MCStreamStorage ---------------------------
(* Small instances of StreamStorage for TLC.                               *)
EXTENDS StreamStorage

CONSTANTS k1, k2

(* Requests that name one key, two, and one twice.                         *)
OneKey == {<<k1>>}
Keys == {<<k1>>, <<k1, k2>>}
Twice == {<<k1>>, <<k2, k1>>, <<k1, k1, k2>>}

(* Every form of an id, as far as no second part comes to wrap.            *)
EveryInput == {in \in InputId : in.kind = "full" => in.id + MaxAdds <= MaxSeq}
(* What * and ms-* give, at the upper end of the second part.              *)
Wrapping == {Full(1, MaxSeq), IdWildcard(1), GeneralWildcard}
Wildcard == {GeneralWildcard}

(* Bounds of XRANGE: some ids, - and +.                                    *)
AnyBound == {At(StreamId(1, 0)), At(StreamId(1, 1)), At(StreamId(2, 0)), Leftmost, Rightmost}

Continue == [kind : {"next", "cursor"}]
Anywhere == [kind : {"cursor"}] \cup [kind : {"id"}, id : {StreamId(1, 1)}]
Symmetry == Permutations(Reader)
=============================================================================
