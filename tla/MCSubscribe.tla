----------------------------- MODULE MCSubscribe -----------------------------
(* Small instances of Subscribe for TLC: the Mutate frames of each run.     *)
EXTENDS Subscribe

CONSTANTS g1, g2, w1, GroupRows, WelcomeRows

RowBounds == [k \in Kinds |-> IF k = "group" THEN GroupRows ELSE WelcomeRows]

Frame(i, a, r, h) == [id |-> i, adds |-> a, removes |-> r, historyOnly |-> h]
Add(t, c) == [topic |-> t, cursor |-> c]

\* One group, added once, while more rows are published than the gate may hold back.
OneMutate == {Frame(1, {Add(g1, 0)}, {}, FALSE)}

\* Two groups: add one, add both (one twice), remove and re-add, remove both.
GroupMutates ==
  {Frame(1, {Add(g1, 0)}, {}, FALSE),
   Frame(2, {Add(g1, 0), Add(g1, 1), Add(g2, 1)}, {}, FALSE),
   Frame(2, {Add(g1, 0)}, {g1}, FALSE),
   Frame(0, {}, {g1, g2}, FALSE)}

\* One group added, removed, re-added higher in one frame, and reset by a lower add.
ResetMutates ==
  {Frame(1, {Add(g1, 0)}, {}, FALSE),
   Frame(2, {Add(g1, 1)}, {g1}, FALSE),
   Frame(0, {}, {g1}, FALSE)}

\* A group and an installation in one wave, and every kind of frame that is refused.
KindMutates ==
  {Frame(1, {Add(g1, 0), Add(w1, 0)}, {}, FALSE),
   Frame(0, {}, {w1}, FALSE),
   Frame(2, {Add(w1, 0)}, {}, TRUE),
   Frame(0, {Add(g1, 0)}, {}, FALSE),
   Frame(2, {Add(g1, 0), Add(g1, 1), Add(w1, 0), Add(w1, 1)}, {}, FALSE),
   Frame(2, {Add(BadTopic, 0)}, {g1}, FALSE),
   Frame(2, {}, {g1, BadTopic}, FALSE)}

\* history_only reads of topics this stream never had live, beside a live topic.
HistoryMutates ==
  {Frame(1, {Add(g1, 0)}, {}, TRUE),
   Frame(2, {Add(g1, 1)}, {g1}, TRUE),
   Frame(2, {Add(g2, 0)}, {}, FALSE),
   Frame(0, {}, {g1}, FALSE)}

LiveMutates ==
  {Frame(1, {Add(g1, 0), Add(w1, 0)}, {}, FALSE),
   Frame(2, {Add(g1, 0)}, {g1}, FALSE)}

\* A topic that was live is removed, then read with history_only.
StaleMutates ==
  {Frame(1, {Add(g1, 1)}, {}, FALSE),
   Frame(0, {}, {g1}, FALSE),
   Frame(2, {Add(g1, 0)}, {}, TRUE)}
=============================================================================
