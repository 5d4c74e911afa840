----------------------------- MODULE MCIngestTail -----------------------------
(* Small instances of IngestTail for TLC. *)
EXTENDS IngestTail, TLC

CONSTANTS f1, f2, u1, u2, p1, p2

Msg(k, id) == [kind |-> k, id |-> id]

\* Three lines of an unfirehose/1.0 session: a duplicate and a message without
\* a uuid, a throttle between messages, one and two ends.
NativeLines ==
    { <<Msg("assistant", u1), Msg("throttle", NoId), Msg("end", u2)>>,
      <<Msg("end", u2), Msg("assistant", NoId), Msg("end", u1)>>,
      <<Msg("broken", u1), Msg("assistant", u1), Msg("assistant", NoId)>> }

\* A delegated session: the parent marker comes first.
DelegatedLines == {[i \in LineNos |-> IF i = 1 THEN Msg("parent", u1) ELSE Msg("assistant", NoId)]}

ThrottleLines == {[i \in LineNos |-> Msg("throttle", NoId)]}

MessageLines == {[i \in LineNos |-> IF i = 1 THEN Msg("user", u1) ELSE Msg("assistant", u2)]}

AllNative == [f \in Files |-> "native"]

PassSymmetry == Permutations(Passes)
===============================================================================
