---------------------------- MODULE TuiAppProofs ----------------------------
(***************************************************************************)
(* What the interface promises for every set of sessions and names: a list *)
(* has a marked row (SomeoneMarked), the preview is what the daemon        *)
(* answered for the marked session (PreviewOfMarked), a key acts on the    *)
(* session that was marked when it was read (KeyHitsMarked), and the       *)
(* registry behind it keeps its own promises with a daemon that is         *)
(* replaced at any time.                                                   *)
(*                                                                         *)
(* The interface looks sessions up by their position in a filtered list,   *)
(* so that the proofs need what a filter does: its lemmas come first.      *)
(***************************************************************************)
EXTENDS TuiApp, SessionRegistryProofs, InductionLemmas, FiniteSetTheorems, SequenceTheorems

-----------------------------------------------------------------------------
(* Filtering a sequence. *)

(* kept is what remains of s, up to each position. *)
Filters(kept, s, S) ==
    /\ kept[0] = <<>>
    /\ \A k \in 1 .. Len(s) :
          kept[k] = IF s[k] \in S THEN Append(kept[k - 1], s[k]) ELSE kept[k - 1]

Distinct(s) == \A i, j \in 1 .. Len(s) : s[i] = s[j] => i = j

Elements(s, n) == {s[j] : j \in 1 .. n}

LEMMA KeepFilters ==
    ASSUME NEW T, NEW s \in Seq(T), NEW S
    PROVE  \E kept : Filters(kept, s, S) /\ Keep(s, S) = kept[Len(s)]
<1> DEFINE Q == Seq(T)
           n == Len(s)
           Rec(h) == h = [k \in 0 .. n |->
                            IF k = 0 THEN <<>>
                            ELSE IF s[k] \in S THEN Append(h[k - 1], s[k]) ELSE h[k - 1]]
           step == [k \in Nat |-> [q \in Q |->
                      IF k \in 1 .. n /\ s[k] \in S THEN Append(q, s[k]) ELSE q]]
           chosen == CHOOSE h : Rec(h)
<1>1. n \in Nat /\ \A k \in 1 .. n : s[k] \in T
  BY LenProperties, ElementOfSeq
<1>2. <<>> \in Q /\ \A q \in Q, e \in T : Append(q, e) \in Q
  BY EmptySeq, AppendProperties
<1>3. Keep(s, S) = chosen[n]
  BY DEF Keep
<1> HIDE DEF Q, n
<1>4. step \in [Nat -> [Q -> Q]]
  BY <1>1, <1>2
<1>5. \A k \in 1 .. n : \A q \in Q :
         step[k][q] = IF s[k] \in S THEN Append(q, s[k]) ELSE q
  BY <1>1
<1> HIDE DEF step
<1>6. PICK f \in [0 .. n -> Q] : Recursive(f, <<>>, step, n)
  BY <1>1, <1>2, <1>4, RecursionExists
<1>7. Rec(f)
  <2>1. ASSUME NEW k \in 0 .. n
        PROVE  f[k] = IF k = 0 THEN <<>>
                      ELSE IF s[k] \in S THEN Append(f[k - 1], s[k]) ELSE f[k - 1]
    <3>1. CASE k = 0
      BY <1>6, <3>1 DEF Recursive
    <3>2. CASE k # 0
      <4>1. k \in 1 .. n /\ k - 1 \in 0 .. n
        BY <1>1, <3>2
      <4>2. f[k] = step[k][f[k - 1]] /\ f[k - 1] \in Q
        BY <1>6, <4>1 DEF Recursive
      <4>3. QED
        BY <1>5, <3>2, <4>1, <4>2
    <3>3. QED
      BY <3>1, <3>2
  <2>2. QED
    BY <2>1
<1>8. Rec(chosen)
  BY <1>7
<1>9. Filters(chosen, s, S)
  <2>1. \A k \in 0 .. n :
           chosen[k] = IF k = 0 THEN <<>>
                       ELSE IF s[k] \in S THEN Append(chosen[k - 1], s[k]) ELSE chosen[k - 1]
    BY <1>8, Zenon
  <2> HIDE DEF chosen
  <2>2. 0 \in 0 .. n /\ \A k \in 1 .. n : k \in 0 .. n /\ k # 0
    BY <1>1
  <2>3. chosen[0] = <<>>
    BY <2>1, <2>2
  <2>4. \A k \in 1 .. n :
           chosen[k] = IF s[k] \in S THEN Append(chosen[k - 1], s[k]) ELSE chosen[k - 1]
    BY <2>1, <2>2
  <2>5. QED
    BY <2>3, <2>4 DEF Filters, n
<1> HIDE DEF chosen
<1>10. QED
  BY <1>3, <1>9 DEF n

(* What is kept are the elements that were to be kept, each once if there  *)
(* was none twice.                                                         *)
LEMMA KeepProperties ==
    ASSUME NEW T, NEW s \in Seq(T), NEW S
    PROVE  /\ Keep(s, S) \in Seq(T)
           /\ Elements(Keep(s, S), Len(Keep(s, S))) = Elements(s, Len(s)) \cap S
           /\ Distinct(s) => Distinct(Keep(s, S))
<1> DEFINE Q == Seq(T)
           n == Len(s)
<1>1. PICK kept : Filters(kept, s, S) /\ Keep(s, S) = kept[n]
  BY KeepFilters
<1>2. n \in Nat /\ \A k \in 1 .. n : s[k] \in T
  BY LenProperties, ElementOfSeq
<1>3. /\ <<>> \in Q /\ Len(<<>>) = 0
      /\ \A q \in Q : Len(q) \in Nat
      /\ \A q \in Q, e \in T :
            /\ Append(q, e) \in Q /\ Len(Append(q, e)) = Len(q) + 1
            /\ \A i \in 1 .. Len(q) : Append(q, e)[i] = q[i]
            /\ Append(q, e)[Len(q) + 1] = e
  BY EmptySeq, LenProperties, AppendProperties
<1>4. /\ kept[0] = <<>>
      /\ \A k \in 1 .. n :
            kept[k] = IF s[k] \in S THEN Append(kept[k - 1], s[k]) ELSE kept[k - 1]
  BY <1>1 DEF Filters
<1> HIDE DEF Q, n
<1> DEFINE Good(k) == /\ kept[k] \in Q
                      /\ Elements(kept[k], Len(kept[k])) = Elements(s, k) \cap S
                      /\ Distinct(s) => Distinct(kept[k])
           Done == {k \in Nat : k <= n => Good(k)}
<1>5. 0 \in Done
  BY <1>3, <1>4 DEF Elements, Distinct
<1>6. ASSUME NEW k \in Nat, k \in Done
      PROVE  k + 1 \in Done
  <2>1. SUFFICES ASSUME k + 1 <= n
                 PROVE  Good(k + 1)
    OBVIOUS
  <2> DEFINE q == kept[k]
             e == s[k + 1]
  <2>2. k + 1 \in 1 .. n /\ (k + 1) - 1 = k /\ e \in T
    BY <1>2, <2>1
  <2>3. kept[k + 1] = IF e \in S THEN Append(q, e) ELSE q
    BY <1>4, <2>2
  <2>4. Good(k)
    BY <1>2, <1>6, <2>1
  <2>5. Elements(s, k + 1) = Elements(s, k) \cup {e}
    <3>1. \A j : j \in 1 .. k + 1 <=> j \in 1 .. k \/ j = k + 1
      OBVIOUS
    <3>2. QED
      BY <3>1 DEF Elements
  <2>6. q \in Q /\ Elements(q, Len(q)) = Elements(s, k) \cap S
        /\ (Distinct(s) => Distinct(q)) /\ Len(q) \in Nat
    BY <1>3, <2>4
  <2>7. Distinct(s) => e \notin Elements(s, k)
    <3>1. ASSUME Distinct(s), NEW j \in 1 .. k
          PROVE  s[j] # e
      <4>1. j \in 1 .. n /\ j # k + 1
        BY <1>2, <2>1
      <4>2. QED
        BY <2>2, <3>1, <4>1 DEF Distinct, n
    <3>2. QED
      BY <3>1 DEF Elements
  <2> HIDE DEF q, e
  <2>8. CASE e \in S
    <3> DEFINE r == Append(q, e)
    <3>1. /\ r \in Q /\ Len(r) = Len(q) + 1
          /\ \A i \in 1 .. Len(q) : r[i] = q[i]
          /\ r[Len(q) + 1] = e
      BY <1>3, <2>2, <2>6
    <3> HIDE DEF r
    <3>2. \A j : j \in 1 .. Len(r) <=> j \in 1 .. Len(q) \/ j = Len(q) + 1
      BY <2>6, <3>1
    <3>3. Elements(r, Len(r)) = Elements(q, Len(q)) \cup {e}
      BY <3>1, <3>2 DEF Elements
    <3>4. Elements(r, Len(r)) = Elements(s, k + 1) \cap S
      BY <2>5, <2>6, <2>8, <3>3
    <3>5. ASSUME Distinct(s)
          PROVE  Distinct(r)
      <4>1. \A i \in 1 .. Len(q) : q[i] # e
        <5>1. e \notin Elements(q, Len(q))
          BY <2>6, <2>7, <3>5
        <5>2. QED
          BY <5>1 DEF Elements
      <4>2. Distinct(q)
        BY <2>6, <3>5
      <4>3. ASSUME NEW i \in 1 .. Len(r), NEW j \in 1 .. Len(r), r[i] = r[j]
            PROVE  i = j
        <5>1. CASE i \in 1 .. Len(q) /\ j \in 1 .. Len(q)
          BY <3>1, <4>2, <4>3, <5>1 DEF Distinct
        <5>2. CASE i = Len(q) + 1 /\ j \in 1 .. Len(q)
          BY <3>1, <4>1, <4>3, <5>2
        <5>3. CASE i \in 1 .. Len(q) /\ j = Len(q) + 1
          BY <3>1, <4>1, <4>3, <5>3
        <5>4. QED
          BY <3>2, <5>1, <5>2, <5>3
      <4>4. QED
        BY <4>3 DEF Distinct
    <3>6. kept[k + 1] = r
      BY <2>3, <2>8 DEF r
    <3>7. QED
      BY <3>1, <3>4, <3>5, <3>6
  <2>9. CASE e \notin S
    <3>1. kept[k + 1] = q /\ Elements(s, k + 1) \cap S = Elements(s, k) \cap S
      BY <2>3, <2>5, <2>9
    <3>2. QED
      BY <2>6, <3>1
  <2>10. QED
    BY <2>8, <2>9
<1>7. n \in Done
  <2> HIDE DEF Done
  <2>1. QED
    BY <1>2, <1>5, <1>6, SetInduction
<1>8. Good(n)
  BY <1>2, <1>7
<1>9. QED
  BY <1>1, <1>8 DEF Q, n

(* A filter that lets everything pass changes nothing. *)
LEMMA KeepAll ==
    ASSUME NEW T, NEW s \in Seq(T)
    PROVE  Keep(s, T) = s
<1> DEFINE Q == Seq(T)
           n == Len(s)
<1>1. PICK kept : Filters(kept, s, T) /\ Keep(s, T) = kept[n]
  BY KeepFilters
<1>2. n \in Nat /\ \A k \in 1 .. n : s[k] \in T
  BY LenProperties, ElementOfSeq
<1>3. /\ <<>> \in Q /\ Len(<<>>) = 0
      /\ \A q \in Q, e \in T :
            /\ Append(q, e) \in Q /\ Len(Append(q, e)) = Len(q) + 1
            /\ \A i \in 1 .. Len(q) : Append(q, e)[i] = q[i]
            /\ Append(q, e)[Len(q) + 1] = e
  BY EmptySeq, AppendProperties
<1>4. /\ kept[0] = <<>>
      /\ \A k \in 1 .. n : kept[k] = Append(kept[k - 1], s[k])
  BY <1>1, <1>2 DEF Filters
<1> HIDE DEF Q, n
<1> DEFINE Good(k) == /\ kept[k] \in Q /\ Len(kept[k]) = k
                      /\ \A j \in 1 .. k : kept[k][j] = s[j]
           Done == {k \in Nat : k <= n => Good(k)}
<1>5. 0 \in Done
  BY <1>3, <1>4
<1>6. ASSUME NEW k \in Nat, k \in Done
      PROVE  k + 1 \in Done
  <2>1. SUFFICES ASSUME k + 1 <= n
                 PROVE  Good(k + 1)
    OBVIOUS
  <2>2. k + 1 \in 1 .. n /\ (k + 1) - 1 = k /\ s[k + 1] \in T
    BY <1>2, <2>1
  <2>3. kept[k + 1] = Append(kept[k], s[k + 1])
    BY <1>4, <2>2
  <2>4. Good(k)
    BY <1>2, <1>6, <2>1
  <2>5. /\ kept[k + 1] \in Q /\ Len(kept[k + 1]) = k + 1
        /\ \A j \in 1 .. k : kept[k + 1][j] = kept[k][j]
        /\ kept[k + 1][k + 1] = s[k + 1]
    BY <1>3, <2>2, <2>3, <2>4
  <2>6. ASSUME NEW j \in 1 .. k + 1
        PROVE  kept[k + 1][j] = s[j]
    <3>1. j \in 1 .. k \/ j = k + 1
      OBVIOUS
    <3>2. QED
      BY <2>4, <2>5, <3>1
  <2>7. QED
    BY <2>5, <2>6
<1>7. n \in Done
  <2> HIDE DEF Done
  <2>1. QED
    BY <1>2, <1>5, <1>6, SetInduction
<1>8. Good(n)
  BY <1>2, <1>7
<1>9. kept[n] \in Seq(T) /\ Len(kept[n]) = Len(s) /\ \A j \in 1 .. Len(s) : kept[n][j] = s[j]
  BY <1>8 DEF Q, n
<1>10. kept[n] = s
  BY <1>9, SeqEqual
<1>11. QED
  BY <1>1, <1>10

LEMMA SetToSeqsMember ==
    ASSUME NEW S, NEW n, Cardinality(S) = n, NEW s
    PROVE  s \in Seqs!SetToSeqs(S) <=>
             s \in [1 .. n -> S] /\ \A i, j \in 1 .. n : i # j => s[i] # s[j]
<1>1. Seqs!SetToSeqs(S) =
        {f \in [1 .. Cardinality(S) -> S] :
            \A i, j \in 1 .. Cardinality(S) : i # j => f[i] # f[j]}
  <2>1. Seqs!Cardinality(S) = Cardinality(S)
    BY DEF Seqs!Cardinality, Cardinality
  <2>2. QED
    BY <2>1 DEF Seqs!SetToSeqs
<1>2. QED
  BY <1>1

(* A sequence of all of a finite set, each once, is one of SetToSeqs, and  *)
(* each of these is such a sequence.                                       *)
LEMMA Arrangement ==
    ASSUME NEW S, IsFiniteSet(S), NEW s \in Seq(S), Distinct(s), Elements(s, Len(s)) = S
    PROVE  s \in Seqs!SetToSeqs(S)
<1> DEFINE n == Len(s)
<1>1. n \in Nat /\ s \in [1 .. n -> S]
  BY LenProperties
<1>2. s \in Bijection(1 .. n, S)
  <2>1. \A i, j \in 1 .. n : s[i] = s[j] => i = j
    BY DEF Distinct
  <2>2. \A e \in S : \E i \in 1 .. n : s[i] = e
    BY DEF Elements
  <2> HIDE DEF n
  <2>3. QED
    BY <1>1, <2>1, <2>2 DEF Bijection, Injection, Surjection, IsInjective
<1>3. Cardinality(S) = n
  <2>1. ExistsBijection(1 .. n, S)
    BY <1>2 DEF ExistsBijection
  <2>2. IsFiniteSet(1 .. n) /\ Cardinality(1 .. n) = n
    BY <1>1, FS_Interval
  <2> HIDE DEF n
  <2>3. QED
    BY <2>1, <2>2, FS_Bijection
<1>4. QED
  <2>1. \A i, j \in 1 .. n : i # j => s[i] # s[j]
    BY DEF Distinct
  <2> HIDE DEF n
  <2>2. QED
    BY <1>1, <1>3, <2>1, SetToSeqsMember

LEMMA Arranged ==
    ASSUME NEW S, IsFiniteSet(S), NEW s \in Seqs!SetToSeqs(S)
    PROVE  s \in Seq(S) /\ Distinct(s) /\ Elements(s, Len(s)) = S
<1> DEFINE n == Cardinality(S)
<1>1. n \in Nat
  BY FS_CardinalityType
<1>2. s \in [1 .. n -> S] /\ \A i, j \in 1 .. n : i # j => s[i] # s[j]
  BY SetToSeqsMember
<1> HIDE DEF n
<1>3. s \in Seq(S) /\ Len(s) = n
  BY <1>1, <1>2
<1>4. s \in Injection(1 .. n, S)
  BY <1>2 DEF Injection, IsInjective
<1>5. s \in Surjection(1 .. n, S)
  <2>1. IsFiniteSet(1 .. n) /\ Cardinality(1 .. n) = n
    BY <1>1, FS_Interval
  <2>2. QED
    BY <1>4, <2>1, FS_Injection DEF n
<1>6. \A e \in S : \E i \in 1 .. n : s[i] = e
  BY <1>5 DEF Surjection
<1>7. Elements(s, Len(s)) = S
  BY <1>2, <1>3, <1>6 DEF Elements
<1>8. QED
  BY <1>2, <1>3, <1>7 DEF Distinct

LEMMA DistinctIsInjective ==
    ASSUME NEW T, NEW s \in Seq(T)
    PROVE  Distinct(s) <=> Seqs!IsInjective(s)
BY LenProperties DEF Distinct, Seqs!IsInjective

(* Sessions that go leave the others in their order. *)
LEMMA KeepArranged ==
    ASSUME NEW S, IsFiniteSet(S), NEW s \in Seqs!SetToSeqs(S), NEW R \in SUBSET S
    PROVE  Keep(s, R) \in Seqs!SetToSeqs(R)
<1> DEFINE r == Keep(s, R)
<1>1. s \in Seq(S) /\ Distinct(s) /\ Elements(s, Len(s)) = S /\ IsFiniteSet(R)
  BY Arranged, FS_Subset
<1>2. r \in Seq(S) /\ Elements(r, Len(r)) = R /\ Distinct(r)
  <2>1. S \cap R = R
    OBVIOUS
  <2>2. QED
    BY <1>1, <2>1, KeepProperties
<1> HIDE DEF r
<1>3. r \in Seq(R)
  <2>1. Len(r) \in Nat /\ r \in [1 .. Len(r) -> S]
    BY <1>2, LenProperties
  <2>2. \A i \in 1 .. Len(r) : r[i] \in R
    BY <1>2 DEF Elements
  <2>3. r \in [1 .. Len(r) -> R]
    BY <2>1, <2>2
  <2>4. QED
    BY <2>1, <2>3, SeqDef
<1>4. r \in Seqs!SetToSeqs(R)
  BY <1>1, <1>2, <1>3, Arrangement
<1>5. QED
  BY <1>4 DEF r

-----------------------------------------------------------------------------
(* The inductive invariant. *)

(* The position is that of a listed session: every change of the list or   *)
(* the filter clamps it, though for the list without the filter.           *)
InRange == ~hide_snagged /\ list # <<>> => selected < Len(list)

(* The screen shows the selection that the next key is for. *)
DrawnOK == pc = "poll" => drawn = Marked

(* Whatever moves the selection has the preview refreshed before drawing.  *)
PreviewOK ==
    pc \in {"draw", "poll"} /\ ~toggled =>
        \/ preview = NoId
        \/ SelectedId # NoId /\ SelectedId \in {preview, previewName}

(* What a key asks for it asks of a session that was marked. *)
RequestOK == pc = "request" /\ request.op # "new" => request.target \in drawn

TuiInv ==
    /\ TuiTypeOK /\ RegistryInv /\ IsFiniteSet(sessions)
    /\ InRange /\ DrawnOK /\ PreviewOK /\ RequestOK

(* The sessions shown are listed ones; without the filter, all of them. *)
LEMMA VisibleListed ==
    ASSUME TuiTypeOK, NEW h \in BOOLEAN
    PROVE  VisibleWhen(h) \in Seq(Ids) /\ (~h => VisibleWhen(h) = list)
<1>1. list \in Seq(Ids)
  BY DEF TuiTypeOK
<1>2. QED
  BY <1>1, KeepProperties, KeepAll DEF VisibleWhen

(* The selected session is the marked one. *)
LEMMA SelectedIsMarked ==
    ASSUME TuiTypeOK
    PROVE  /\ Marked \subseteq Ids
           /\ SelectedId # NoId => SelectedId \in Marked /\ SelectedId \in Ids
           /\ SelectedId \in Ids \cup {NoId}
           /\ ~hide_snagged /\ list # <<>> /\ selected < Len(list) => Marked # {}
<1> DEFINE v == Visible
<1>1. v \in Seq(Ids) /\ (~hide_snagged => v = list) /\ selected \in Nat
  BY VisibleListed DEF Visible, TuiTypeOK
<1>2. DOMAIN v = 1 .. Len(v) /\ Len(v) \in Nat /\ \A k \in 1 .. Len(v) : v[k] \in Ids
  BY <1>1, LenProperties, ElementOfSeq
<1>3. /\ SelectedId = IF selected < Len(v) THEN v[selected + 1] ELSE NoId
      /\ Marked = {v[k] : k \in {j \in DOMAIN v : j - 1 = selected}}
  BY DEF SelectedId, Marked
<1> HIDE DEF v
<1>4. Marked \subseteq Ids
  BY <1>2, <1>3
<1>5. ASSUME selected < Len(v)
      PROVE  v[selected + 1] \in Marked /\ v[selected + 1] \in Ids
  <2>1. selected + 1 \in 1 .. Len(v) /\ (selected + 1) - 1 = selected
    BY <1>1, <1>2, <1>5
  <2>2. QED
    BY <1>2, <1>3, <2>1
<1>6. QED
  BY <1>1, <1>3, <1>4, <1>5

LEMMA SelectionKept ==
    ASSUME UNCHANGED <<list, snagged, selected, hide_snagged>>
    PROVE  Marked' = Marked /\ SelectedId' = SelectedId
<1>1. Visible' = Visible
  BY DEF Visible, VisibleWhen
<1>2. QED
  BY <1>1 DEF Marked, SelectedId

LEMMA ClampedInRange ==
    ASSUME NEW len \in Nat, selected \in Nat
    PROVE  Clamped(len) \in Nat /\ (len > 0 => Clamped(len) < len)
BY DEF Clamped

(* The order of the daemon's map is always one of its sessions. *)
LEMMA ReorderArranges ==
    ASSUME IsFiniteSet(sessions), order \in Seqs!SetToSeqs(sessions), Reorder
    PROVE  order' \in Seqs!SetToSeqs(sessions')
<1>1. CASE sessions' \subseteq sessions
  BY <1>1, KeepArranged DEF Reorder
<1>2. CASE ~(sessions' \subseteq sessions)
  BY <1>2 DEF Reorder
<1>3. QED
  BY <1>1, <1>2

(* What a step leaves alone when the registry and the interface's copy of  *)
(* it stay as they are.                                                    *)
LEMMA CopyKept ==
    ASSUME TuiInv, UNCHANGED <<registryVars, order, list>>
    PROVE  /\ RegistryInv' /\ RegistryTypeOK' /\ IsFiniteSet(sessions')
           /\ order' \in Seqs!SetToSeqs(sessions')
           /\ list' \in Seq(Ids) /\ Seqs!IsInjective(list')
BY DEF TuiInv, TuiTypeOK, registryVars, RegistryInv, RegistryTypeOK, IndexConsistent

(* Steps that leave the list and the selection alone keep what is said of  *)
(* them; only where the program stands and what it asks may change.        *)
LEMMA QuietKeepsInv ==
    ASSUME TuiInv, UNCHANGED <<registryVars, order, list, snagged, selected, hide_snagged>>,
           TuiTypeOK', DrawnOK', PreviewOK', RequestOK'
    PROVE  TuiInv'
<1>1. RegistryInv' /\ IsFiniteSet(sessions')
  BY CopyKept
<1>2. InRange'
  BY DEF TuiInv, InRange
<1>3. QED
  BY <1>1, <1>2 DEF TuiInv

LEMMA PlainKeyKeepsInv ==
    ASSUME TuiInv, OtherEvent \/ PressQuit \/ PressInput \/ Cancel
    PROVE  TuiInv'
<1>1. UNCHANGED <<registryVars, order, list, snagged, selected, hide_snagged,
                  preview, previewName, drawn, from_key, request, served, toggled>>
      /\ pc = "poll" /\ pc' \in {"draw", "quit"}
      /\ input_mode' \in {"Normal", "Rename", "Send"}
  BY DEF TuiInv, TuiTypeOK, OtherEvent, PressQuit, PressInput, Cancel, Key, appVars,
         previewVars
<1>2. TuiTypeOK'
  BY <1>1, CopyKept DEF TuiInv, TuiTypeOK
<1>3. DrawnOK' /\ PreviewOK' /\ RequestOK'
  <2>1. SelectedId' = SelectedId
    BY <1>1, SelectionKept
  <2>2. QED
    BY <1>1, <2>1 DEF TuiInv, DrawnOK, PreviewOK, RequestOK
<1>4. QED
  BY <1>1, <1>2, <1>3, QuietKeepsInv

(* j and k go round the visible sessions. *)
LEMMA PressMoveKeepsInv ==
    ASSUME TuiInv, PressMove
    PROVE  TuiInv'
<1>1. /\ UNCHANGED <<registryVars, order, list, snagged, input_mode, hide_snagged,
                     preview, previewName, drawn, request, served, toggled>>
      /\ pc = "poll" /\ pc' = "preview" /\ from_key' = TRUE
      /\ IF Visible = <<>> THEN selected' = selected
         ELSE selected' \in {SelectNext, SelectPrev}
  BY DEF PressMove, Key, previewVars
<1>2. Visible \in Seq(Ids) /\ (~hide_snagged => Visible = list) /\ selected \in Nat
  BY VisibleListed DEF TuiInv, TuiTypeOK, Visible
<1>3. Visible # <<>> => selected' \in Nat /\ (InRange /\ ~hide_snagged => selected' < Len(list))
  <2> SUFFICES ASSUME Visible # <<>>
               PROVE  selected' \in Nat
                      /\ (InRange /\ ~hide_snagged => selected' < Len(list))
    OBVIOUS
  <2>1. Len(Visible) \in Nat /\ Len(Visible) # 0
    BY <1>2, LenProperties, EmptySeq
  <2> DEFINE n == Len(Visible)
  <2>2. SelectNext = (selected + 1) % n /\ SelectPrev = IF selected = 0 THEN n - 1 ELSE selected - 1
    BY DEF SelectNext, SelectPrev
  <2>3. ~hide_snagged => n = Len(list) /\ list # <<>>
    BY <1>2
  <2> HIDE DEF n
  <2>4. n \in Nat /\ n > 0
    BY <2>1 DEF n
  <2>5. SelectNext \in 0 .. n - 1
    BY <1>2, <2>2, <2>4
  <2>6. SelectPrev \in Nat /\ (selected < n => SelectPrev < n)
    BY <1>2, <2>2, <2>4
  <2>7. selected' \in {SelectNext, SelectPrev}
    BY <1>1
  <2>8. QED
    BY <2>3, <2>4, <2>5, <2>6, <2>7 DEF InRange
<1>4. selected' \in Nat
  BY <1>1, <1>2, <1>3
<1>5. TuiTypeOK'
  BY <1>1, <1>4, CopyKept DEF TuiInv, TuiTypeOK
<1>6. InRange'
  BY <1>1, <1>2, <1>3 DEF TuiInv, InRange
<1>7. DrawnOK' /\ PreviewOK' /\ RequestOK'
  BY <1>1 DEF TuiInv, DrawnOK, PreviewOK, RequestOK
<1>8. QED
  BY <1>1, <1>5, <1>6, <1>7, CopyKept DEF TuiInv

(* h clamps the position to the list that it leads to. *)
LEMMA PressToggleKeepsInv ==
    ASSUME TuiInv, PressToggle
    PROVE  TuiInv'
<1>1. /\ UNCHANGED <<registryVars, order, list, snagged, input_mode, preview,
                     previewName, drawn, from_key, request, served>>
      /\ pc = "poll" /\ pc' = "draw" /\ toggled' = TRUE
      /\ hide_snagged' = ~hide_snagged
      /\ selected' = Clamped(Len(VisibleWhen(~hide_snagged)))
  BY DEF PressToggle, Key, previewVars
<1> DEFINE v == VisibleWhen(~hide_snagged)
<1>2. v \in Seq(Ids) /\ (hide_snagged => v = list) /\ selected \in Nat
  BY VisibleListed DEF TuiInv, TuiTypeOK
<1>3. Len(v) \in Nat /\ (v # <<>> => Len(v) > 0)
  BY <1>2, LenProperties, EmptySeq
<1>4. selected' = Clamped(Len(v))
  BY <1>1
<1> HIDE DEF v
<1>5. selected' \in Nat /\ (v # <<>> => selected' < Len(v))
  BY <1>2, <1>3, <1>4, ClampedInRange
<1>6. TuiTypeOK'
  BY <1>1, <1>5, CopyKept DEF TuiInv, TuiTypeOK
<1>7. InRange'
  BY <1>1, <1>2, <1>5 DEF TuiInv, TuiTypeOK, InRange
<1>8. DrawnOK' /\ PreviewOK' /\ RequestOK'
  BY <1>1 DEF TuiInv, DrawnOK, PreviewOK, RequestOK
<1>9. QED
  BY <1>1, <1>6, <1>7, <1>8, CopyKept DEF TuiInv

(* n, x, Enter, and the input line: what is asked is asked of the session  *)
(* that the screen shows marked.                                           *)
LEMMA AskKeepsInv ==
    ASSUME TuiInv, PressNew \/ PressKillOrAttach \/ Confirm
    PROVE  TuiInv'
<1>1. PICK op \in {"new", "kill", "rename", "send", "attach"}, id \in Ids \cup {NoId} :
          Ask(op, id) /\ (op # "new" => id = SelectedId /\ SelectedId # NoId)
  <2>1. TuiTypeOK
    BY DEF TuiInv
  <2>2. SelectedId \in Ids \cup {NoId}
    BY <2>1, SelectedIsMarked
  <2>3. CASE PressNew
    BY <2>3 DEF PressNew
  <2>4. CASE PressKillOrAttach
    BY <2>2, <2>4 DEF PressKillOrAttach
  <2>5. CASE Confirm
    BY <2>2, <2>5 DEF Confirm
  <2>6. QED
    BY <2>3, <2>4, <2>5
<1>2. pc = "poll" /\ input_mode' \in {"Normal", "Rename", "Send"}
  BY DEF TuiInv, TuiTypeOK, PressNew, PressKillOrAttach, Confirm, Key
<1>3. /\ UNCHANGED <<registryVars, order, list, snagged, selected, hide_snagged,
                     preview, previewName, drawn, from_key, served, toggled>>
      /\ request' = [op |-> op, target |-> id] /\ pc' = "request"
  BY <1>1 DEF Ask, previewVars
<1>4. request' \in Requests /\ request' # NoRequest
  BY <1>3 DEF Requests, NoRequest
<1>5. TuiTypeOK'
  BY <1>2, <1>3, <1>4, CopyKept DEF TuiInv, TuiTypeOK
<1>6. RequestOK'
  BY <1>1, <1>2, <1>3, SelectedIsMarked DEF TuiInv, DrawnOK, RequestOK
<1>7. DrawnOK' /\ PreviewOK'
  BY <1>3 DEF DrawnOK, PreviewOK
<1>8. QED
  BY <1>3, <1>5, <1>6, <1>7, QuietKeepsInv

LEMMA PressKeyKeepsInv ==
    ASSUME TuiInv, PressKey
    PROVE  TuiInv'
BY PlainKeyKeepsInv, PressMoveKeepsInv, PressToggleKeepsInv, AskKeepsInv DEF PressKey

-----------------------------------------------------------------------------
(* The registry behind the interface. *)

LEMMA FiniteKept ==
    ASSUME IsFiniteSet(sessions),
           sessions' \subseteq sessions \/ \E i \in Ids : sessions' = sessions \cup {i}
    PROVE  IsFiniteSet(sessions')
BY FS_Subset, FS_AddElement

(* Whatever happens to the registry in a step, its own promises are kept.  *)
RegistryKept ==
    /\ RegistryInv' /\ IsFiniteSet(sessions')
    /\ Stable

LEMMA OthersKeepRegistry ==
    ASSUME RegistryInv, IsFiniteSet(sessions), RegistryNext \/ Restart
    PROVE  RegistryKept
<1>1. CASE RegistryNext
  <2>1. RegistryInv' /\ Stable
    BY <1>1, RegistryStepKeepsInv, RegistryStepStable, RegistryAssumption
  <2>2. sessions' \subseteq sessions \/ \E i \in Ids : sessions' = sessions \cup {i}
    BY <1>1 DEF RegistryNext, InsertNew, Insert, RemoveTarget, Remove, RenameTarget, Rename
  <2>3. QED
    BY <2>1, <2>2, FiniteKept DEF RegistryKept
<1>2. CASE Restart
  <2>1. RegistryInv'
    BY <1>2, RegistryAssumption
       DEF Restart, RegistryAssumption, RegistryInv, RegistryTypeOK, IndexConsistent
  <2>2. Stable
    BY <1>2 DEF Restart, Stable, Slides
  <2>3. IsFiniteSet(sessions')
    BY <1>2, FiniteKept DEF Restart
  <2>4. QED
    BY <2>1, <2>2, <2>3 DEF RegistryKept
<1>3. QED
  BY <1>1, <1>2

LEMMA StillRegistryKept ==
    ASSUME RegistryInv, IsFiniteSet(sessions), UNCHANGED registryVars
    PROVE  RegistryKept
<1>1. RegistryInv'
  BY DEF registryVars, RegistryInv, RegistryTypeOK, IndexConsistent
<1>2. Stable
  <2> SUFFICES ASSUME NEW t \in Targets, NEW i \in Ids, NEW j \in Ids,
                      Resolves(t, i), Resolves(t, j)', i # j
               PROVE  FALSE
    BY DEF Stable
  <2>1. Resolves(t, j)
    BY DEF registryVars, Resolves, IsName, HasName, Abbreviated
  <2>2. QED
    BY <2>1, InvResolvesToOneLive, RegistryAssumption DEF ResolvesToOneLive
<1>3. QED
  BY <1>1, <1>2 DEF RegistryKept, registryVars

(* The interface's requests are among the changes that others make too. *)
LEMMA ServeKeepsRegistry ==
    ASSUME RegistryInv, IsFiniteSet(sessions), request.target \in Targets,
           NEW i \in sessions, Resolves(request.target, i), Serve(i)
    PROVE  RegistryKept
<1>1. CASE request.op = "kill" /\ Remove(i)
  BY <1>1, OthersKeepRegistry DEF RegistryNext, RemoveTarget
<1>2. CASE request.op = "rename" /\ \E n \in Names :
              /\ ~HasName(n)
              /\ name_index' = Reindex(name[i], n, i)
              /\ name' = [name EXCEPT ![i] = n]
              /\ UNCHANGED sessions
  <2>1. PICK n \in Names : Rename(request.target, n)
    BY <1>2 DEF Rename
  <2>2. QED
    BY <2>1, OthersKeepRegistry DEF RegistryNext, RenameTarget
<1>3. CASE UNCHANGED registryVars
  BY <1>3, StillRegistryKept
<1>4. QED
  BY <1>1, <1>2, <1>3 DEF Serve

LEMMA NewKeepsRegistry ==
    ASSUME RegistryInv, IsFiniteSet(sessions), NEW i \in Ids \ sessions, Insert(i, NoName)
    PROVE  RegistryKept
BY OthersKeepRegistry DEF RegistryNext, InsertNew

-----------------------------------------------------------------------------
(* The steps of run_tui and of the daemon. *)

(* What follows every request that was made. *)
LEMMA AfterRequestKeepsInv ==
    ASSUME TuiInv, NEW next \in {"attached", "sessions", "failed"}, AfterRequest(next),
           RegistryKept, order' \in Seqs!SetToSeqs(sessions'), served' \in Ids \cup {NoId}
    PROVE  TuiInv'
<1>1. /\ UNCHANGED <<list, snagged, selected, input_mode, hide_snagged, preview,
                     previewName, drawn, toggled>>
      /\ request' = NoRequest /\ pc' = next /\ from_key' = TRUE
  BY DEF AfterRequest, appVars, previewVars
<1>2. RegistryInv' /\ RegistryTypeOK' /\ IsFiniteSet(sessions')
  BY DEF RegistryKept, RegistryInv
<1>3. NoRequest \in Requests
  BY DEF NoRequest, Requests
<1>4. TuiTypeOK'
  BY <1>1, <1>2, <1>3 DEF TuiInv, TuiTypeOK
<1>5. InRange' /\ DrawnOK' /\ PreviewOK' /\ RequestOK'
  BY <1>1 DEF TuiInv, InRange, DrawnOK, PreviewOK, RequestOK
<1>6. QED
  BY <1>2, <1>4, <1>5 DEF TuiInv

LEMMA RequestServedKeepsRegistry ==
    ASSUME TuiInv, RequestServed
    PROVE  RegistryKept
<1>1. RegistryInv /\ IsFiniteSet(sessions) /\ TuiTypeOK
  BY DEF TuiInv
<1>2. CASE \E i \in Ids \ sessions : Insert(i, NoName)
  BY <1>1, <1>2, NewKeepsRegistry
<1>3. CASE request.op # "new"
           /\ \E i \in sessions : Resolves(request.target, i) /\ Serve(i)
  <2>1. request.target \in Targets
    BY <1>1, <1>3, TuiAssumption DEF RequestServed, TuiInv, RequestOK, TuiTypeOK
  <2>2. QED
    BY <1>1, <1>3, <2>1, ServeKeepsRegistry
<1>4. QED
  BY <1>2, <1>3 DEF RequestServed

LEMMA RequestServedKeepsInv ==
    ASSUME TuiInv, RequestServed
    PROVE  TuiInv'
<1>1. RegistryKept
  BY RequestServedKeepsRegistry
<1>2. order' \in Seqs!SetToSeqs(sessions')
  BY ReorderArranges DEF RequestServed, TuiInv, TuiTypeOK
<1>3. served' \in Ids \cup {NoId}
  BY DEF RequestServed, TuiInv, TuiTypeOK, RegistryTypeOK
<1>4. PICK next \in {"attached", "sessions", "failed"} : AfterRequest(next)
  BY DEF RequestServed
<1>5. QED
  BY <1>1, <1>2, <1>3, <1>4, AfterRequestKeepsInv

LEMMA RequestUnservedKeepsInv ==
    ASSUME TuiInv, RequestUnserved
    PROVE  TuiInv'
<1>1. RegistryKept
  BY StillRegistryKept DEF RequestUnserved, TuiInv
<1>2. order' \in Seqs!SetToSeqs(sessions') /\ served' \in Ids \cup {NoId}
  BY DEF RequestUnserved, registryVars, TuiInv, TuiTypeOK
<1>3. PICK next \in {"attached", "sessions", "failed"} : AfterRequest(next)
  BY DEF RequestUnserved
<1>4. QED
  BY <1>1, <1>2, <1>3, AfterRequestKeepsInv

(* Detach, Fail, Timeout, and a list that could not be refreshed. *)
LEMMA OnlyPcKeepsInv ==
    ASSUME TuiInv, from_key' \in BOOLEAN,
           UNCHANGED <<registryVars, order, appVars, drawn, served, toggled>>,
           pc' \in {"sessions", "preview", "failed"},
           request' = NoRequest
    PROVE  TuiInv'
<1>1. UNCHANGED <<list, snagged, selected, input_mode, hide_snagged, preview, previewName>>
  BY DEF appVars, previewVars
<1>2. NoRequest \in Requests
  BY DEF NoRequest, Requests
<1>3. TuiTypeOK'
  BY <1>1, <1>2, CopyKept DEF TuiInv, TuiTypeOK
<1>4. DrawnOK' /\ PreviewOK' /\ RequestOK'
  BY DEF DrawnOK, PreviewOK, RequestOK
<1>5. QED
  BY <1>1, <1>3, <1>4, QuietKeepsInv

LEMMA LoopKeepsInv ==
    ASSUME TuiInv,
           Detach \/ Fail \/ Timeout \/ (RefreshFails /\ pc = "sessions")
    PROVE  TuiInv'
<1>1. UNCHANGED <<registryVars, order, appVars, drawn, served, toggled>>
  BY DEF Detach, Fail, Timeout, RefreshFails
<1>2. pc' \in {"sessions", "preview", "failed"} /\ from_key' \in BOOLEAN
  BY DEF Detach, Fail, Timeout, RefreshFails, TuiInv, TuiTypeOK
<1>3. request' = NoRequest
  BY DEF Detach, Fail, Timeout, RefreshFails, TuiInv, TuiTypeOK
<1>4. QED
  BY <1>1, <1>2, <1>3, OnlyPcKeepsInv

(* The new list has every session of its daemon once, in its map's order.  *)
LEMMA RefreshSessionsKeepsInv ==
    ASSUME TuiInv, RefreshSessions
    PROVE  TuiInv'
<1>1. /\ UNCHANGED <<registryVars, order, input_mode, hide_snagged, preview,
                     previewName, drawn, from_key, request, toggled>>
      /\ pc = "sessions" /\ pc' = "preview"
      /\ list' = Listed /\ selected' = Clamped(Len(Listed))
      /\ snagged' \subseteq Snaggable /\ served' = NoId
  BY DEF RefreshSessions, previewVars
<1>2. order \in Seqs!SetToSeqs(sessions) /\ IsFiniteSet(sessions) /\ sessions \subseteq Ids
  BY DEF TuiInv, TuiTypeOK, RegistryTypeOK
<1>3. Listed \in Seq(Ids) /\ Seqs!IsInjective(Listed)
  <2>1. order \in Seq(sessions) /\ Distinct(order)
    BY <1>2, Arranged
  <2>2. order \in Seq(Ids)
    <3>1. Len(order) \in Nat /\ order \in [1 .. Len(order) -> sessions]
      BY <2>1, LenProperties
    <3>2. order \in [1 .. Len(order) -> Ids]
      BY <1>2, <3>1
    <3>3. QED
      BY <3>1, <3>2, SeqDef
  <2>3. QED
    <3>1. <<>> \in Seq(Ids) /\ Distinct(<<>>)
      BY EmptySeq DEF Distinct
    <3>2. Listed \in Seq(Ids) /\ Distinct(Listed)
      BY <2>1, <2>2, <3>1 DEF Listed
    <3>3. QED
      BY <3>2, DistinctIsInjective
<1>4. Len(Listed) \in Nat /\ (Listed # <<>> => Len(Listed) > 0) /\ selected \in Nat
  BY <1>3, LenProperties, EmptySeq DEF TuiInv, TuiTypeOK
<1>5. selected' \in Nat /\ (Listed # <<>> => selected' < Len(Listed))
  BY <1>1, <1>4, ClampedInRange
<1>6. RegistryInv' /\ RegistryTypeOK' /\ IsFiniteSet(sessions') /\ UNCHANGED sessions
  BY <1>1 DEF TuiInv, registryVars, RegistryInv, RegistryTypeOK, IndexConsistent
<1>7. TuiTypeOK'
  BY <1>1, <1>2, <1>3, <1>5, <1>6 DEF TuiInv, TuiTypeOK
<1>8. InRange'
  BY <1>1, <1>5 DEF InRange
<1>9. DrawnOK' /\ PreviewOK' /\ RequestOK'
  BY <1>1 DEF DrawnOK, PreviewOK, RequestOK
<1>10. QED
  BY <1>6, <1>7, <1>8, <1>9 DEF TuiInv

(* What the daemon answers with for an id is the session itself, or one    *)
(* that has this id for a name.                                            *)
LEMMA AnswerBearsId ==
    ASSUME RegistryInv, NEW t \in Ids \cap Targets, NEW i \in Ids, Resolves(t, i)
    PROVE  i = t \/ name[i] = t
<1>1. CASE IsName(t)
  BY <1>1 DEF Resolves, IsName, RegistryInv, IndexConsistent
<1>2. CASE ~IsName(t)
  <2>1. i = t \/ Abbreviated(t) = {i}
    BY <1>2 DEF Resolves
  <2>2. Abbreviated(t) \subseteq {t}
    BY RegistryAssumption DEF RegistryAssumption, Abbreviated
  <2>3. QED
    BY <2>1, <2>2
<1>3. QED
  BY <1>1, <1>2

(* refresh_preview, and a preview that could not be refreshed. *)
LEMMA RefreshPreviewKeepsInv ==
    ASSUME TuiInv, RefreshPreview \/ (RefreshFails /\ pc = "preview")
    PROVE  TuiInv'
<1> DEFINE Emptied == preview' = NoId /\ previewName' = NoName
           Answered(j) == /\ SelectedId # NoId /\ Resolves(SelectedId, j)
                          /\ preview' = j /\ previewName' = name[j]
<1>1. pc = "preview" /\ AfterPreview /\ (Emptied \/ \E j \in sessions : Answered(j))
  BY DEF RefreshPreview, RefreshFails, Answers
<1>2. /\ UNCHANGED <<registryVars, order, list, snagged, selected, input_mode,
                     hide_snagged, drawn, from_key, request, served>>
      /\ toggled' = FALSE /\ pc' = "draw"
  BY <1>1 DEF AfterPreview
<1>3. /\ preview' \in Ids \cup {NoId} /\ previewName' \in Names \cup {NoName}
      /\ preview' # NoId => SelectedId # NoId /\ SelectedId \in {preview', previewName'}
  <2>1. CASE Emptied
    BY <2>1
  <2>2. CASE \E j \in sessions : Answered(j)
    <3>1. PICK j \in sessions : Answered(j)
      BY <2>2
    <3>2. j \in Ids /\ name[j] \in Names \cup {NoName}
      BY DEF TuiInv, TuiTypeOK, RegistryTypeOK
    <3>3. SelectedId \in Ids \cap Targets
      BY <3>1, SelectedIsMarked, TuiAssumption DEF TuiInv
    <3>4. RegistryInv
      BY DEF TuiInv
    <3>5. j = SelectedId \/ name[j] = SelectedId
      BY <3>1, <3>2, <3>3, <3>4, AnswerBearsId
    <3>6. QED
      BY <3>1, <3>2, <3>5
  <2>3. QED
    BY <1>1, <2>1, <2>2
<1>4. TuiTypeOK'
  BY <1>1, <1>2, <1>3, CopyKept DEF TuiInv, TuiTypeOK
<1>5. PreviewOK'
  <2>1. SelectedId' = SelectedId
    BY <1>2, SelectionKept
  <2>2. QED
    BY <1>3, <2>1 DEF PreviewOK
<1>6. DrawnOK' /\ RequestOK'
  BY <1>2 DEF DrawnOK, RequestOK
<1>7. QED
  BY <1>2, <1>4, <1>5, <1>6, QuietKeepsInv

LEMMA DrawKeepsInv ==
    ASSUME TuiInv, Draw
    PROVE  TuiInv'
<1>1. /\ UNCHANGED <<registryVars, order, list, snagged, selected, input_mode,
                     hide_snagged, preview, previewName, from_key, request, served, toggled>>
      /\ pc = "draw" /\ pc' = "poll" /\ drawn' = Marked
  BY DEF Draw, appVars, previewVars
<1>2. Marked \subseteq Ids
  BY SelectedIsMarked DEF TuiInv
<1>3. TuiTypeOK'
  BY <1>1, <1>2, CopyKept DEF TuiInv, TuiTypeOK
<1>4. DrawnOK' /\ PreviewOK' /\ RequestOK'
  BY <1>1, SelectionKept DEF TuiInv, DrawnOK, PreviewOK, RequestOK
<1>5. QED
  BY <1>1, <1>3, <1>4, QuietKeepsInv

LEMMA OthersKeepInv ==
    ASSUME TuiInv, Others
    PROVE  TuiInv'
<1>1. RegistryKept
  BY OthersKeepRegistry DEF Others, TuiInv
<1>2. order' \in Seqs!SetToSeqs(sessions')
  BY ReorderArranges DEF Others, TuiInv, TuiTypeOK
<1>3. UNCHANGED <<list, snagged, selected, input_mode, hide_snagged, preview, previewName,
                  drawn, pc, from_key, request, served, toggled>>
  BY DEF Others, appVars, previewVars, loopVars
<1>4. RegistryInv' /\ RegistryTypeOK' /\ IsFiniteSet(sessions')
  BY <1>1 DEF RegistryKept, RegistryInv
<1>5. TuiTypeOK'
  BY <1>2, <1>3, <1>4 DEF TuiInv, TuiTypeOK
<1>6. InRange' /\ DrawnOK' /\ PreviewOK' /\ RequestOK'
  BY <1>3, SelectionKept DEF TuiInv, InRange, DrawnOK, PreviewOK, RequestOK
<1>7. QED
  BY <1>4, <1>5, <1>6 DEF TuiInv

-----------------------------------------------------------------------------
(* The theorems. *)

LEMMA TuiInitInv == TuiInit => TuiInv
<1> SUFFICES ASSUME TuiInit
             PROVE  TuiInv
  OBVIOUS
<1>1. RegistryInv /\ RegistryTypeOK /\ IsFiniteSet(sessions) /\ sessions = {}
  <2>1. RegistryInv
    BY RegistryInitInv, RegistryAssumption DEF TuiInit
  <2>2. IsFiniteSet(sessions)
    BY FS_EmptySet DEF TuiInit, RegistryInit
  <2>3. QED
    BY <2>1, <2>2 DEF TuiInit, RegistryInit, RegistryInv
<1>2. order \in Seqs!SetToSeqs(sessions)
  <2>1. order = <<>> /\ <<>> \in Seq(sessions) /\ Len(<<>>) = 0
    BY EmptySeq DEF TuiInit
  <2>2. Distinct(order) /\ Elements(order, Len(order)) = sessions
    BY <1>1, <2>1 DEF Distinct, Elements
  <2>3. QED
    BY <1>1, <2>1, <2>2, Arrangement
<1>3. list \in Seq(Ids) /\ Seqs!IsInjective(list)
  <2>1. list = <<>> /\ <<>> \in Seq(Ids) /\ Len(<<>>) = 0
    BY EmptySeq DEF TuiInit
  <2>2. Distinct(list)
    BY <2>1 DEF Distinct
  <2>3. QED
    BY <2>1, <2>2, DistinctIsInjective
<1>4. NoRequest \in Requests
  BY DEF NoRequest, Requests
<1>5. TuiTypeOK
  BY <1>1, <1>2, <1>3, <1>4 DEF TuiTypeOK, TuiInit
<1>6. InRange /\ DrawnOK /\ PreviewOK /\ RequestOK
  BY DEF TuiInit, InRange, DrawnOK, PreviewOK, RequestOK
<1>7. QED
  BY <1>1, <1>5, <1>6 DEF TuiInv

LEMMA TuiStillKeepsInv ==
    ASSUME TuiInv, UNCHANGED tuiVars
    PROVE  TuiInv'
<1>1. UNCHANGED <<registryVars, order, list, snagged, selected, input_mode, hide_snagged,
                  preview, previewName, drawn, pc, from_key, request, served, toggled>>
  BY DEF tuiVars, appVars, previewVars, loopVars
<1>2. TuiTypeOK'
  BY <1>1, CopyKept DEF TuiInv, TuiTypeOK
<1>3. DrawnOK' /\ PreviewOK' /\ RequestOK'
  BY <1>1, SelectionKept DEF TuiInv, DrawnOK, PreviewOK, RequestOK
<1>4. QED
  BY <1>1, <1>2, <1>3, QuietKeepsInv

LEMMA TuiInvariant == TuiSpec => []TuiInv
<1>1. TuiInit => TuiInv
  BY TuiInitInv
<1>2. TuiInv /\ [TuiNext]_tuiVars => TuiInv'
  <2> SUFFICES ASSUME TuiInv, [TuiNext]_tuiVars
               PROVE  TuiInv'
    OBVIOUS
  <2>1. CASE PressKey
    BY <2>1, PressKeyKeepsInv
  <2>2. CASE RequestServed \/ RequestUnserved
    BY <2>2, RequestServedKeepsInv, RequestUnservedKeepsInv
  <2>3. CASE Detach \/ Fail
    BY <2>3, LoopKeepsInv
  <2>4. CASE Refresh
    BY <2>4, LoopKeepsInv, RefreshSessionsKeepsInv, RefreshPreviewKeepsInv DEF Refresh
  <2>5. CASE RefreshFails
    <3>1. pc = "sessions" \/ pc = "preview"
      BY <2>5 DEF RefreshFails
    <3>2. QED
      BY <2>5, <3>1, LoopKeepsInv, RefreshPreviewKeepsInv
  <2>6. CASE Draw
    BY <2>6, DrawKeepsInv
  <2>7. CASE Others
    BY <2>7, OthersKeepInv
  <2>8. CASE UNCHANGED tuiVars
    BY <2>8, TuiStillKeepsInv
  <2>9. QED
    BY <2>1, <2>2, <2>3, <2>4, <2>5, <2>6, <2>7, <2>8 DEF TuiNext
<1>3. QED
  BY <1>1, <1>2, PTL DEF TuiSpec

(* The interface's state keeps its type: in particular the order it lists  *)
(* is always one of the daemon's sessions, each once (list_sessions).      *)
THEOREM TuiTypeCorrect == TuiSpec => []TuiTypeOK
BY TuiInvariant, PTL DEF TuiInv

(* What the user interface asks of the registry, between others' requests  *)
(* and with daemons that come and go, keeps its two maps in step           *)
(* (registry.rs), and a target designates one live session.                *)
THEOREM TuiRegistryConsistent == TuiSpec => [](IndexConsistent /\ ResolvesToOneLive)
<1>1. TuiInv => IndexConsistent /\ ResolvesToOneLive
  BY InvResolvesToOneLive, RegistryAssumption DEF TuiInv, RegistryInv
<1>2. QED
  BY <1>1, TuiInvariant, PTL

(* While nothing is filtered, a list of sessions has one of them marked    *)
(* when the next key is awaited: refresh_sessions, select_next,            *)
(* select_prev and toggle_hide_snagged (app.rs) each leave the position    *)
(* inside the list.                                                        *)
THEOREM TuiSomeoneMarked == TuiSpec => []SomeoneMarked
<1>1. TuiInv => SomeoneMarked
  BY SelectedIsMarked DEF TuiInv, SomeoneMarked, InRange, DrawnOK
<1>2. QED
  BY <1>1, TuiInvariant, PTL

(* The preview on the screen is that of the session marked there, or of    *)
(* one that had its id for a name when asked for, or empty: run_tui        *)
(* (mod.rs) refreshes it after all that moves the selection but h, and     *)
(* empties it before it asks.                                              *)
THEOREM TuiPreviewOfMarked == TuiSpec => []PreviewOfMarked
<1>1. TuiInv => PreviewOfMarked
  BY SelectedIsMarked DEF TuiInv, PreviewOfMarked, DrawnOK, PreviewOK
<1>2. QED
  BY <1>1, TuiInvariant, PTL

(* A key acts on the session that was marked when it was read, or on       *)
(* one that bears the marked session's id for a name: the request names    *)
(* the id (selected_id, app.rs), which resolve (registry.rs) takes for a   *)
(* name first and for a prefix of no other id.                             *)
THEOREM TuiKeyHitsMarked == TuiSpec => KeyHitsMarked
<1> DEFINE Hits == served' \notin {served, NoId} =>
                      served' \in drawn \/ name[served'] \in drawn
<1>1. TuiInv /\ [TuiNext]_tuiVars => [Hits]_tuiVars
  <2> SUFFICES ASSUME TuiInv, TuiNext, served' \notin {served, NoId}
               PROVE  served' \in drawn \/ name[served'] \in drawn
    OBVIOUS
  <2>1. RequestServed
    BY DEF TuiNext, PressKey, OtherEvent, PressQuit, PressMove, PressToggle, PressNew,
           PressKillOrAttach, PressInput, Confirm, Cancel, Ask, RequestUnserved, Detach,
           Fail, Refresh, Timeout, RefreshSessions, RefreshPreview, AfterPreview,
           RefreshFails, Draw, Others, loopVars
  <2>2. PICK i \in sessions : Resolves(request.target, i) /\ served' = i
    BY <2>1 DEF RequestServed
  <2>3. request.target \in drawn
    BY <2>1 DEF RequestServed, TuiInv, RequestOK
  <2> DEFINE t == request.target
  <2>4. t \in drawn /\ t \in Ids /\ t \in Targets /\ i \in Ids
    BY <2>3, TuiAssumption DEF TuiInv, TuiTypeOK, RegistryTypeOK
  <2>5. Resolves(t, i)
    BY <2>2
  <2>6. RegistryInv
    BY DEF TuiInv
  <2> HIDE DEF t
  <2>7. i = t \/ name[i] = t
    BY <2>4, <2>5, <2>6, AnswerBearsId
  <2>8. QED
    BY <2>2, <2>4, <2>7
<1>2. [][Hits]_tuiVars => KeyHitsMarked
  BY DEF KeyHitsMarked
<1>3. QED
  BY <1>1, <1>2, TuiInvariant, PTL DEF TuiSpec

(* Under the interface's requests too, and under a daemon that is replaced *)
(* by another, a target does not slide from a live session to another.     *)
THEOREM TuiTargetStable == TuiSpec => TargetStable
<1>1. TuiInv /\ [TuiNext]_tuiVars => [Stable]_registryVars
  <2> SUFFICES ASSUME TuiInv, [TuiNext]_tuiVars, ~UNCHANGED registryVars
               PROVE  Stable
    OBVIOUS
  <2>1. RequestServed \/ Others
    BY DEF TuiNext, PressKey, OtherEvent, PressQuit, PressMove, PressToggle, PressNew,
           PressKillOrAttach, PressInput, Confirm, Cancel, Ask, RequestUnserved, Detach,
           Fail, Refresh, Timeout, RefreshSessions, RefreshPreview, AfterPreview,
           RefreshFails, Draw, tuiVars
  <2>2. RegistryKept
    BY <2>1, RequestServedKeepsRegistry, OthersKeepRegistry DEF Others, TuiInv
  <2>3. QED
    BY <2>2 DEF RegistryKept
<1>2. [][Stable]_registryVars => TargetStable
  BY DEF TargetStable, Stable, Slides
<1>3. QED
  BY <1>1, <1>2, TuiInvariant, PTL DEF TuiSpec

=============================================================================
