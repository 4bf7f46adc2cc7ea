----------------------------- MODULE MCMessageV1 -----------------------------
(***************************************************************************)
(* Instances of MessageV1 for TLC: streams of each kind while envelopes    *)
(* come in, and clients that page through a table that changes.            *)
(***************************************************************************)
EXTENDS MessageV1, TLC

CONSTANTS s1, s2, s3, c1, c2, c3, c4, t1, other

\* A Subscribe of one topic that XMTP knows and one that it does not; a Subscribe2 that
\* changes its topic and then asks for all; a SubscribeAll.
MCKind == s1 :> "subscribe" @@ s2 :> "subscribe2" @@ s3 :> "subscribe"
MCRequests == s1 :> <<{t1, other}>> @@ s2 :> <<{t1}, {other}, {Wildcard}>> @@ s3 :> <<{Wildcard}>>

Row(t, i, topic, expired) == [time |-> t, id |-> i, topic |-> topic, expired |-> expired]

\* MessageRows of one time, of time 0, of another topic, and ones the cleaner may delete.
MCRows ==
  {Row(0, 3, t1, FALSE), Row(1, 1, t1, FALSE), Row(1, 2, other, TRUE), Row(1, 4, t1, FALSE),
   Row(2, 1, t1, FALSE), Row(2, 5, other, FALSE), Row(3, 2, other, TRUE)}

Ask(topics, start, end, direction, limit) ==
  [topics |-> topics, start |-> start, end |-> end, direction |-> direction, limit |-> limit]

\* c1 goes forwards in pages of one, c2 backwards between two times; c3 asks for as many
\* rows as it may of preferences, and c4 for too many.
MCQuery ==
  c1 :> Ask({t1, other}, 0, 0, "ascending", 1) @@ c2 :> Ask({t1, other}, 1, 2, "unspecified", 2)
    @@ c3 :> Ask({t1}, 0, 0, "ascending", 4) @@ c4 :> Ask({t1, other}, 0, 0, "ascending", 4)

MCScenarios ==
  {[streams |-> {s1, s3}, clients |-> {}, rows |-> {}],
   [streams |-> {s2}, clients |-> {}, rows |-> {}],
   [streams |-> {}, clients |-> {c1}, rows |-> {r \in MessageRows : r.time < 2}],
   [streams |-> {}, clients |-> {c2, c3, c4}, rows |-> {r \in MessageRows : r.time = 2}]}
=============================================================================
