-------------------------- MODULE AppendBufferProofs --------------------------
(***************************************************************************)
(* What the two memcpy of appendVirtualFile compute, for all contents.      *)
(***************************************************************************)
EXTENDS AppendBuffer, SequenceTheorems, TLAPS

\* The size is right whatever is appended ...
THEOREM AppendedLength ==
    ASSUME NEW S, NEW old \in Seq(S), NEW new \in Seq(S)
    PROVE  /\ DOMAIN Appended(old, new) = 1..(Len(old) + Len(new))
           /\ Len(old \o new) = Len(old) + Len(new)
  BY DEF Appended

\* ... and the content is right when the new data is exactly as long as what
\* the file holds: then the offset size is the offset file->size.
THEOREM AppendOfEqualSize ==
    ASSUME NEW S, NEW old \in Seq(S), NEW new \in Seq(S), Len(new) = Len(old)
    PROVE  Appended(old, new) = old \o new
<1>1. /\ Appended(old, new) \in Seq(S) /\ old \o new \in Seq(S)
      /\ Len(Appended(old, new)) = Len(old \o new)
  BY DEF Appended
<1>2. ASSUME NEW i \in 1..Len(Appended(old, new))
      PROVE  Appended(old, new)[i] = (old \o new)[i]
  <2>1. CASE i <= Len(old)
    BY <2>1 DEF Appended
  <2>2. CASE i > Len(old)
    BY <2>2 DEF Appended
  <2> QED
    BY <1>1, <2>1, <2>2
<1> HIDE DEF Appended
<1> QED
  BY <1>1, <1>2, SeqEqual

\* With less, the new data lands on the old: the byte after the file's old
\* content stays zero.
THEOREM ShortAppendIsWrong ==
    ASSUME NEW S, Zero \notin S,
           NEW old \in Seq(S), NEW new \in Seq(S),
           0 < Len(new), Len(new) < Len(old)
    PROVE  Appended(old, new) # old \o new
<1> DEFINE last == Len(old) + Len(new)
<1>1. last \in 1..last /\ last > 2 * Len(new) /\ last > Len(old)
  OBVIOUS
<1>2. Appended(old, new)[last] = Zero
  BY <1>1 DEF Appended
<1>3. (old \o new)[last] = new[Len(new)]
  BY <1>1
<1>4. new[Len(new)] \in S
  OBVIOUS
<1> QED
  BY <1>2, <1>3, <1>4
=============================================================================
