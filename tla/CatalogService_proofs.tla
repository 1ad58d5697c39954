------------------------ MODULE CatalogService_proofs --------------------------
(***************************************************************************)
(* CatalogService, for any accounts, keys, napplets, lists and bounds: the *)
(* cards shown are served, a change is made to the list it was reviewed    *)
(* on and loses nothing, an artifact is released only while it is accepted.*)
(*                                                                         *)
(* Two things carry the proofs.  A list is edited, queued and drained as a *)
(* sequence: the lemmas of the first two parts say what is in it after.    *)
(* And a change in progress remembers what it was made from (ChangesOK):   *)
(* the check of the authority after each await compares it with the store. *)
(***************************************************************************)
EXTENDS CatalogService, FiniteSetTheorems, SequenceTheorems, TLAPS

-------------------------------------------------------------------------------
(* Lists.                                                                    *)

\* What a part of a sequence holds.
LEMMA Cut ==
  ASSUME NEW S, NEW s \in Seq(S), NEW m \in 1..(Len(s) + 1), NEW n \in (m - 1)..Len(s)
  PROVE  /\ SubSeq(s, m, n) \in Seq(S)
         /\ Len(SubSeq(s, m, n)) = n - m + 1
         /\ \A i \in 1..(n - m + 1) : SubSeq(s, m, n)[i] = s[m + i - 1]
<1>1. Len(s) \in Nat /\ \A i \in 1..Len(s) : s[i] \in S
  BY LenProperties, ElementOfSeq
<1>2. m \in Int /\ n \in Int /\ 1 <= m /\ m - 1 <= n /\ n <= Len(s)
  BY <1>1
<1>3. \A i \in m..n : i \in 1..Len(s)
  BY <1>1, <1>2
<1>4. \A i \in m..n : s[i] \in S
  BY <1>1, <1>3
<1>5. /\ SubSeq(s, m, n) \in Seq(S)
      /\ Len(SubSeq(s, m, n)) = IF m <= n THEN n - m + 1 ELSE 0
      /\ \A i \in 1..(n - m + 1) : SubSeq(s, m, n)[i] = s[m + i - 1]
  BY <1>2, <1>4, SubSeqProperties
<1>6. Len(SubSeq(s, m, n)) = n - m + 1
  <2> DEFINE k == Len(SubSeq(s, m, n))
  <2>1. k = IF m <= n THEN n - m + 1 ELSE 0
    BY <1>5
  <2> HIDE DEF k
  <2>2. k = n - m + 1
    BY <1>2, <2>1
  <2>3. QED
    BY <2>2 DEF k
<1>7. QED
  BY <1>5, <1>6

\* What one sequence after another holds.
LEMMA Join ==
  ASSUME NEW S, NEW s \in Seq(S), NEW t \in Seq(S)
  PROVE  /\ s \o t \in Seq(S)
         /\ Len(s \o t) = Len(s) + Len(t)
         /\ \A i \in 1..Len(s) : (s \o t)[i] = s[i]
         /\ \A i \in 1..Len(t) : (s \o t)[Len(s) + i] = t[i]
<1>1. /\ s \o t \in Seq(S) /\ Len(s \o t) = Len(s) + Len(t)
      /\ \A i \in 1..(Len(s) + Len(t)) :
         (s \o t)[i] = IF i <= Len(s) THEN s[i] ELSE t[i - Len(s)]
  BY ConcatProperties
<1>2. Len(s) \in Nat /\ Len(t) \in Nat
  BY LenProperties
<1>3. \A i \in 1..Len(s) : (s \o t)[i] = s[i]
  BY <1>1, <1>2
<1>4. \A i \in 1..Len(t) : (s \o t)[Len(s) + i] = t[i]
  <2>1. SUFFICES ASSUME NEW i \in 1..Len(t) PROVE (s \o t)[Len(s) + i] = t[i]
    OBVIOUS
  <2>2. /\ Len(s) + i \in 1..(Len(s) + Len(t))
        /\ ~(Len(s) + i <= Len(s))
        /\ (Len(s) + i) - Len(s) = i
    BY <1>2
  <2>3. QED
    BY <1>1, <2>2
<1>5. QED
  BY <1>1, <1>3, <1>4

\* A sequence without its nth element.
LEMMA Without ==
  ASSUME NEW S, NEW s \in Seq(S), NEW n \in 1..Len(s)
  PROVE  LET r == SubSeq(s, 1, n - 1) \o SubSeq(s, n + 1, Len(s))
         IN  /\ r \in Seq(S) /\ Len(r) = Len(s) - 1
             /\ \A i \in 1..(n - 1) : r[i] = s[i]
             /\ \A i \in n..(Len(s) - 1) : r[i] = s[i + 1]
<1> DEFINE r == SubSeq(s, 1, n - 1) \o SubSeq(s, n + 1, Len(s))
           p == SubSeq(s, 1, n - 1)
           q == SubSeq(s, n + 1, Len(s))
<1>1. Len(s) \in Nat /\ n \in Nat /\ 1 <= n /\ n <= Len(s)
  BY LenProperties
<1>2. /\ 1 \in 1..(Len(s) + 1) /\ n - 1 \in (1 - 1)..Len(s)
      /\ n + 1 \in 1..(Len(s) + 1) /\ Len(s) \in ((n + 1) - 1)..Len(s)
  BY <1>1
<1>3. /\ p \in Seq(S) /\ Len(p) = (n - 1) - 1 + 1
      /\ \A i \in 1..((n - 1) - 1 + 1) : p[i] = s[1 + i - 1]
  BY <1>2, Cut
<1>4. /\ q \in Seq(S) /\ Len(q) = Len(s) - (n + 1) + 1
      /\ \A i \in 1..(Len(s) - (n + 1) + 1) : q[i] = s[(n + 1) + i - 1]
  BY <1>2, Cut
<1> HIDE DEF p, q, r
<1>5. (n - 1) - 1 + 1 = n - 1 /\ Len(s) - (n + 1) + 1 = Len(s) - n
  BY <1>1
<1>6. Len(p) = n - 1 /\ Len(q) = Len(s) - n
  BY <1>3, <1>4, <1>5
<1>7. \A i \in 1..(n - 1) : p[i] = s[i]
  <2>1. \A i \in 1..(n - 1) : 1 + i - 1 = i
    OBVIOUS
  <2>2. QED
    BY <1>3, <1>5, <2>1
<1>8. \A i \in 1..(Len(s) - n) : q[i] = s[n + i]
  <2>1. \A i \in 1..(Len(s) - n) : (n + 1) + i - 1 = n + i
    BY <1>1
  <2>2. QED
    BY <1>4, <1>5, <2>1
<1>9. /\ r \in Seq(S) /\ Len(r) = Len(p) + Len(q)
      /\ \A i \in 1..Len(p) : r[i] = p[i]
      /\ \A i \in 1..Len(q) : r[Len(p) + i] = q[i]
  <2>1. r = p \o q
    BY DEF p, q, r
  <2>2. /\ p \o q \in Seq(S) /\ Len(p \o q) = Len(p) + Len(q)
        /\ \A i \in 1..Len(p) : (p \o q)[i] = p[i]
        /\ \A i \in 1..Len(q) : (p \o q)[Len(p) + i] = q[i]
    <3>1. p \in Seq(S) /\ q \in Seq(S)
      BY <1>3, <1>4
    <3>2. QED
      BY <3>1, Join
  <2>3. QED
    BY <2>1, <2>2
<1>10. Len(r) = Len(s) - 1
  <2>1. Len(r) = (n - 1) + (Len(s) - n)
    BY <1>6, <1>9
  <2>2. (n - 1) + (Len(s) - n) = Len(s) - 1
    BY <1>1
  <2>3. QED
    BY <2>1, <2>2
<1>11. \A i \in 1..(n - 1) : r[i] = s[i]
  BY <1>6, <1>7, <1>9
<1>12. \A i \in n..(Len(s) - 1) : r[i] = s[i + 1]
  <2>1. SUFFICES ASSUME NEW i \in n..(Len(s) - 1) PROVE r[i] = s[i + 1]
    OBVIOUS
  <2> DEFINE j == i - (n - 1)
  <2>2. j \in 1..(Len(s) - n) /\ (n - 1) + j = i /\ n + j = i + 1
    BY <1>1, <2>1
  <2> HIDE DEF j
  <2>3. r[(n - 1) + j] = q[j] /\ q[j] = s[n + j]
    BY <1>6, <1>8, <1>9, <2>2
  <2>4. QED
    BY <2>2, <2>3
<1>13. QED
  BY <1>9, <1>10, <1>11, <1>12 DEF r

\* Without one entry, a list is a list and has nothing of that napplet.
LEMMA RemovedAtIsList ==
  ASSUME NEW s, IsList(s), NEW n \in 1..Len(s)
  PROVE  LET r == SubSeq(s, 1, n - 1) \o SubSeq(s, n + 1, Len(s))
         IN  /\ IsList(r)
             /\ \A i \in DOMAIN r : r[i].coordinate # s[n].coordinate
<1> DEFINE r == SubSeq(s, 1, n - 1) \o SubSeq(s, n + 1, Len(s))
<1>1. s \in Seq(Entry)
  BY DEF IsList
<1>2. /\ Len(s) \in Nat /\ DOMAIN s = 1..Len(s)
      /\ n \in Nat /\ 1 <= n /\ n <= Len(s)
  BY <1>1, LenProperties
<1>3. /\ r \in Seq(Entry) /\ Len(r) = Len(s) - 1
      /\ \A i \in 1..(n - 1) : r[i] = s[i]
      /\ \A i \in n..(Len(s) - 1) : r[i] = s[i + 1]
  BY <1>1, Without
<1> HIDE DEF r
<1>4. DOMAIN r = 1..(Len(s) - 1)
  BY <1>3, LenProperties
<1>5. \A i, j \in 1..Len(s) : s[i].coordinate = s[j].coordinate => i = j
  BY <1>2 DEF IsList
\* The place in s of an element of r.
<1> DEFINE At(i) == IF i < n THEN i ELSE i + 1
<1>6. \A i \in DOMAIN r : /\ At(i) \in 1..Len(s) /\ At(i) # n
                          /\ r[i] = s[At(i)]
  <2>1. SUFFICES ASSUME NEW i \in 1..(Len(s) - 1)
                 PROVE  At(i) \in 1..Len(s) /\ At(i) # n /\ r[i] = s[At(i)]
    BY <1>4
  <2>2. CASE i < n
    <3>1. i \in 1..(n - 1) /\ i \in 1..Len(s) /\ i # n
      BY <1>2, <2>2
    <3>2. QED
      BY <1>3, <2>2, <3>1
  <2>3. CASE ~(i < n)
    <3>1. i \in n..(Len(s) - 1) /\ i + 1 \in 1..Len(s) /\ i + 1 # n
      BY <1>2, <2>3
    <3>2. QED
      BY <1>3, <2>3, <3>1
  <2>4. QED
    BY <2>2, <2>3
<1>7. \A i, j \in DOMAIN r : At(i) = At(j) => i = j
  <2>1. SUFFICES ASSUME NEW i \in Int, NEW j \in Int, At(i) = At(j)
                 PROVE  i = j
    BY <1>2, <1>4
  <2>2. QED
    BY <1>2, <2>1
<1> HIDE DEF At
<1>8. \A i \in DOMAIN r : r[i].coordinate # s[n].coordinate
  BY <1>5, <1>6
<1>9. \A i, j \in DOMAIN r : r[i].coordinate = r[j].coordinate => i = j
  <2>1. SUFFICES ASSUME NEW i \in DOMAIN r, NEW j \in DOMAIN r,
                        r[i].coordinate = r[j].coordinate
                 PROVE  i = j
    OBVIOUS
  <2>2. s[At(i)].coordinate = s[At(j)].coordinate
    BY <1>6, <2>1
  <2>3. At(i) = At(j)
    BY <1>5, <1>6, <2>2
  <2>4. QED
    BY <1>7, <2>3
<1>10. QED
  BY <1>3, <1>8, <1>9 DEF IsList, r

LEMMA RemovedIsList ==
  ASSUME NEW s, IsList(s), NEW c
  PROVE  /\ IsList(Removed(s, c))
         /\ \A i \in DOMAIN Removed(s, c) : Removed(s, c)[i].coordinate # c
<1> DEFINE at == {i \in DOMAIN s : s[i].coordinate = c}
           n == CHOOSE i \in at : TRUE
<1>1. CASE at = {}
  BY <1>1 DEF Removed
<1>2. CASE at # {}
  <2>1. n \in at
    BY <1>2
  <2>2. n \in DOMAIN s /\ s[n].coordinate = c
    BY <2>1
  <2>3. Removed(s, c) = SubSeq(s, 1, n - 1) \o SubSeq(s, n + 1, Len(s))
    BY <1>2 DEF Removed
  <2> HIDE DEF n
  <2>4. n \in 1..Len(s)
    BY <2>2, LenProperties DEF IsList
  <2> DEFINE r == SubSeq(s, 1, n - 1) \o SubSeq(s, n + 1, Len(s))
  <2>5. IsList(r) /\ \A i \in DOMAIN r : r[i].coordinate # s[n].coordinate
    BY <2>4, RemovedAtIsList
  <2> HIDE DEF r
  <2>6. Removed(s, c) = r
    BY <2>3 DEF r
  <2>7. QED
    BY <2>2, <2>5, <2>6
<1>3. QED
  BY <1>1, <1>2

LEMMA EditedIsList ==
  ASSUME NEW s, IsList(s), NEW change, change.entry \in Entry
  PROVE  IsList(Edited(change, s))
<1> DEFINE c == change.entry.coordinate
           r == Removed(s, c)
           t == Append(r, change.entry)
<1>1. IsList(r) /\ \A i \in DOMAIN r : r[i].coordinate # c
  BY RemovedIsList
<1>2. Edited(change, s) = IF change.op = "approve" THEN t ELSE r
  BY DEF Edited
<1> HIDE DEF r
<1>3. /\ r \in Seq(Entry) /\ DOMAIN r = 1..Len(r) /\ Len(r) \in Nat
  BY <1>1, LenProperties DEF IsList
<1>4. /\ t \in Seq(Entry) /\ Len(t) = Len(r) + 1
      /\ \A i \in 1..Len(r) : t[i] = r[i]
      /\ t[Len(r) + 1] = change.entry
  BY <1>3, AppendProperties
<1>5. DOMAIN t = 1..(Len(r) + 1)
  BY <1>4, LenProperties
<1> HIDE DEF t
<1>6. \A i, j \in DOMAIN t : t[i].coordinate = t[j].coordinate => i = j
  BY <1>1, <1>3, <1>4, <1>5 DEF IsList
<1>7. IsList(t)
  BY <1>4, <1>6 DEF IsList
<1>8. QED
  BY <1>1, <1>2, <1>7

-------------------------------------------------------------------------------
(* The queue of jobs.                                                        *)

JobKeys == [event : ListEvent, coordinate : Coordinates, manifest : Manifests]

InFlight == running \cup Range(waiting)

Distinct(line) == \A i, j \in DOMAIN line : line[i] = line[j] => i = j

\* JobsAreShared, with the types it needs.
JobsOK ==
  /\ running \subseteq JobKeys /\ IsFiniteSet(running)
  /\ Cardinality(running) <= MaxJobs
  /\ waiting \in Seq(JobKeys)
  /\ Distinct(waiting)
  /\ running \cap Range(waiting) = {}
  /\ waiting # <<>> => Cardinality(running) = MaxJobs

\* A line cut in two: its parts have its elements, each once.
LEMMA CutInTwo ==
  ASSUME NEW S, NEW line \in Seq(S), Distinct(line), NEW n \in 0..Len(line)
  PROVE  LET first == SubSeq(line, 1, n)
             rest  == SubSeq(line, n + 1, Len(line))
         IN  /\ first \in Seq(S) /\ rest \in Seq(S)
             /\ Range(line) = Range(first) \cup Range(rest)
             /\ Range(first) \cap Range(rest) = {}
             /\ IsFiniteSet(Range(first)) /\ Cardinality(Range(first)) = n
             /\ Distinct(rest)
             /\ n = Len(line) => rest = <<>>
<1> DEFINE first == SubSeq(line, 1, n)
           rest == SubSeq(line, n + 1, Len(line))
<1>1. /\ Len(line) \in Nat /\ DOMAIN line = 1..Len(line)
      /\ n \in Nat /\ n <= Len(line)
  BY LenProperties
<1>2. /\ first \in Seq(S) /\ Len(first) = n
      /\ \A i \in 1..n : first[i] = line[i]
  <2>1. 1 \in 1..(Len(line) + 1) /\ n \in (1 - 1)..Len(line)
    BY <1>1
  <2>2. /\ first \in Seq(S) /\ Len(first) = n - 1 + 1
        /\ \A i \in 1..(n - 1 + 1) : first[i] = line[1 + i - 1]
    BY <2>1, Cut
  <2>3. n - 1 + 1 = n /\ \A i \in 1..n : 1 + i - 1 = i
    BY <1>1
  <2>4. QED
    BY <2>2, <2>3
<1>3. /\ rest \in Seq(S) /\ Len(rest) = Len(line) - n
      /\ \A i \in 1..(Len(line) - n) : rest[i] = line[n + i]
  <2>1. n + 1 \in 1..(Len(line) + 1) /\ Len(line) \in ((n + 1) - 1)..Len(line)
    BY <1>1
  <2>2. /\ rest \in Seq(S) /\ Len(rest) = Len(line) - (n + 1) + 1
        /\ \A i \in 1..(Len(line) - (n + 1) + 1) : rest[i] = line[(n + 1) + i - 1]
    BY <2>1, Cut
  <2>3. /\ Len(line) - (n + 1) + 1 = Len(line) - n
        /\ \A i \in 1..(Len(line) - n) : (n + 1) + i - 1 = n + i
    BY <1>1
  <2>4. QED
    BY <2>2, <2>3
<1> HIDE DEF first, rest
<1>4. DOMAIN first = 1..n /\ DOMAIN rest = 1..(Len(line) - n)
  BY <1>2, <1>3, LenProperties
<1>5. /\ Range(first) = {line[i] : i \in 1..n}
      /\ Range(rest) = {line[i] : i \in (n + 1)..Len(line)}
  <2>1. \A i \in 1..(Len(line) - n) : n + i \in (n + 1)..Len(line)
    BY <1>1
  <2>2. \A i \in (n + 1)..Len(line) :
          i - n \in 1..(Len(line) - n) /\ line[i] = rest[i - n]
    <3>1. \A i \in (n + 1)..Len(line) : i - n \in 1..(Len(line) - n) /\ n + (i - n) = i
      BY <1>1
    <3>2. QED
      BY <1>3, <3>1
  <2>3. Range(first) = {line[i] : i \in 1..n}
    BY <1>2, <1>4 DEF Range
  <2>4. Range(rest) = {rest[i] : i \in 1..(Len(line) - n)}
    BY <1>4 DEF Range
  <2>5. Range(rest) \subseteq {line[i] : i \in (n + 1)..Len(line)}
    BY <1>3, <2>1, <2>4
  <2>6. {line[i] : i \in (n + 1)..Len(line)} \subseteq Range(rest)
    BY <2>2, <2>4
  <2>7. QED
    BY <2>3, <2>5, <2>6
<1>6. /\ Range(line) = Range(first) \cup Range(rest)
      /\ Range(first) \cap Range(rest) = {}
  <2>1. Range(line) = {line[i] : i \in 1..Len(line)}
    BY <1>1 DEF Range
  <2>2. 1..Len(line) = (1..n) \cup ((n + 1)..Len(line))
    BY <1>1
  <2>3. \A i \in 1..n : \A j \in (n + 1)..Len(line) : line[i] # line[j]
    <3>1. \A i \in 1..n : \A j \in (n + 1)..Len(line) :
            i \in 1..Len(line) /\ j \in 1..Len(line) /\ i # j
      BY <1>1
    <3>2. \A i, j \in 1..Len(line) : line[i] = line[j] => i = j
      BY <1>1 DEF Distinct
    <3>3. QED
      BY <3>1, <3>2
  <2>4. QED
    BY <1>5, <2>1, <2>2, <2>3
<1>7. IsFiniteSet(Range(first)) /\ Cardinality(Range(first)) = n
  <2>1. first \in Surjection(1..n, Range(first))
    <3>1. first \in [1..n -> S]
      BY <1>2, LenProperties
    <3>2. Range(first) = {first[i] : i \in 1..n}
      BY <1>4 DEF Range
    <3>3. first \in [1..n -> Range(first)]
      BY <3>1, <3>2
    <3>4. \A x \in Range(first) : \E i \in 1..n : first[i] = x
      BY <3>2
    <3>5. QED
      BY <3>3, <3>4 DEF Surjection
  <2>2. \A i, j \in 1..n : first[i] = first[j] => i = j
    BY <1>1, <1>2 DEF Distinct
  <2>3. first \in Injection(1..n, Range(first))
    BY <2>1, <2>2 DEF Surjection, Injection, IsInjective
  <2>4. IsFiniteSet(1..n) /\ Cardinality(1..n) = n
    BY <1>1, FS_Interval
  <2>5. QED
    BY <2>1, <2>3, <2>4, FS_Surjection
<1>8. Distinct(rest)
  <2>1. \A i \in 1..(Len(line) - n) : n + i \in 1..Len(line)
    BY <1>1
  <2>2. \A i, j \in 1..(Len(line) - n) : rest[i] = rest[j] => n + i = n + j
    BY <1>1, <1>3, <2>1 DEF Distinct
  <2>3. QED
    BY <1>1, <1>4, <2>2 DEF Distinct
<1>9. n = Len(line) => rest = <<>>
  BY <1>1, <1>3, EmptySeq
<1>10. QED
  BY <1>2, <1>3, <1>6, <1>7, <1>8, <1>9 DEF first, rest

\* What waits fills the free slots, in order, and nothing is lost.
LEMMA DrainKeeps ==
  ASSUME NEW held, held \subseteq JobKeys, IsFiniteSet(held), Cardinality(held) <= MaxJobs,
         NEW line \in Seq(JobKeys), Distinct(line), held \cap Range(line) = {},
         Drain(held, line)
  PROVE  JobsOK' /\ InFlight' = held \cup Range(line)
<1>1. /\ Len(line) \in Nat /\ Cardinality(held) \in Nat /\ MaxJobs \in Nat
  BY LenProperties, FS_CardinalityType, ConstantsAssumption
<1>2. \E n \in 0..Len(line) :
        /\ n = Len(line) \/ n = MaxJobs - Cardinality(held)
        /\ n <= MaxJobs - Cardinality(held)
        /\ running' = held \cup Range(SubSeq(line, 1, n))
        /\ waiting' = SubSeq(line, n + 1, Len(line))
  <2> DEFINE free == MaxJobs - Cardinality(held)
             m == IF Len(line) < free THEN Len(line) ELSE free
  <2>1. /\ running' = held \cup Range(SubSeq(line, 1, m))
        /\ waiting' = SubSeq(line, m + 1, Len(line))
    BY DEF Drain
  <2>2. m \in 0..Len(line) /\ m <= free /\ (m = Len(line) \/ m = free)
    BY <1>1
  <2> HIDE DEF m
  <2>3. QED
    BY <2>1, <2>2
<1>3. PICK n \in 0..Len(line) :
        /\ n = Len(line) \/ n = MaxJobs - Cardinality(held)
        /\ n <= MaxJobs - Cardinality(held)
        /\ running' = held \cup Range(SubSeq(line, 1, n))
        /\ waiting' = SubSeq(line, n + 1, Len(line))
  BY <1>2
<1> DEFINE first == SubSeq(line, 1, n)
           rest == SubSeq(line, n + 1, Len(line))
<1>4. /\ first \in Seq(JobKeys) /\ rest \in Seq(JobKeys)
      /\ Range(line) = Range(first) \cup Range(rest)
      /\ Range(first) \cap Range(rest) = {}
      /\ IsFiniteSet(Range(first)) /\ Cardinality(Range(first)) = n
      /\ Distinct(rest)
      /\ n = Len(line) => rest = <<>>
  BY CutInTwo
<1>5. running' = held \cup Range(first) /\ waiting' = rest
  BY <1>3
<1> HIDE DEF first, rest
<1>6. IsFiniteSet(running') /\ Cardinality(running') = Cardinality(held) + n
  <2>1. held \cap Range(first) = {}
    BY <1>4
  <2>2. Cardinality(held \cap Range(first)) = 0
    BY <2>1, FS_EmptySet
  <2>3. /\ IsFiniteSet(held \cup Range(first))
        /\ Cardinality(held \cup Range(first)) =
             Cardinality(held) + Cardinality(Range(first)) - Cardinality(held \cap Range(first))
    BY <1>4, FS_Union
  <2>4. QED
    BY <1>1, <1>4, <1>5, <2>2, <2>3
<1>7. Cardinality(running') <= MaxJobs
  BY <1>1, <1>3, <1>6
<1>8. waiting' # <<>> => Cardinality(running') = MaxJobs
  BY <1>1, <1>3, <1>4, <1>5, <1>6
<1>9. running' \subseteq JobKeys
  BY <1>4, <1>5, RangeOfSeq
<1>10. running' \cap Range(waiting') = {}
  BY <1>4, <1>5
<1>11. InFlight' = held \cup Range(line)
  BY <1>4, <1>5 DEF InFlight
<1>12. QED
  BY <1>4, <1>5, <1>6, <1>7, <1>8, <1>9, <1>10, <1>11 DEF JobsOK

\* The jobs a list asks for: those not in flight wait behind the others.
LEMMA EnqueueKeeps ==
  ASSUME JobsOK, NEW event \in ListEvent, NEW entries, entries \subseteq Range(event.entries),
         Enqueue(event, entries)
  PROVE  JobsOK' /\ InFlight' = InFlight \cup {JobKey(event, e) : e \in entries}
<1> DEFINE asked == {JobKey(event, e) : e \in entries}
           fresh == asked \ (running \cup Range(waiting))
<1>1. PICK line \in InOrder(event, fresh) : Drain(running, waiting \o line)
  BY DEF Enqueue
<1>2. event.entries \in Seq(Entry)
  BY DEF ListEvent
<1>3. asked \subseteq JobKeys
  <2>1. entries \subseteq Entry
    BY <1>2, RangeOfSeq
  <2>2. QED
    BY <2>1 DEF JobKey, JobKeys, Entry
<1>4. IsFiniteSet(fresh)
  <2> DEFINE D == DOMAIN event.entries
             f == [i \in D |-> JobKey(event, event.entries[i])]
  <2>1. IsFiniteSet(D)
    <3>1. D = 1..Len(event.entries) /\ Len(event.entries) \in Nat
      BY <1>2, LenProperties
    <3>2. IsFiniteSet(1..Len(event.entries))
      BY <3>1, FS_Interval
    <3>3. QED
      BY <3>1, <3>2
  <2>2. f \in Surjection(D, Range(f))
    BY DEF Surjection, Range
  <2>3. fresh \subseteq Range(f)
    BY DEF Range
  <2> HIDE DEF f, D
  <2>4. IsFiniteSet(Range(f))
    BY <2>1, <2>2, FS_Surjection
  <2>5. QED
    BY <2>3, <2>4, FS_Subset
<1> HIDE DEF asked, fresh
<1>5. /\ line \in [1..Cardinality(fresh) -> fresh]
      /\ Range(line) = fresh
      /\ Cardinality(fresh) \in Nat
  BY <1>1, <1>4, FS_CardinalityType DEF InOrder
<1>6. fresh \subseteq JobKeys
  BY <1>3 DEF fresh
<1>7. line \in Seq(JobKeys) /\ Len(line) = Cardinality(fresh)
  BY <1>5, <1>6
<1>8. Distinct(line)
  <2>1. line \in Surjection(1..Cardinality(fresh), fresh)
    BY <1>5 DEF Surjection, Range
  <2>2. /\ IsFiniteSet(1..Cardinality(fresh))
        /\ Cardinality(1..Cardinality(fresh)) = Cardinality(fresh)
    BY <1>5, FS_Interval
  <2>3. line \in Injection(1..Cardinality(fresh), fresh)
    BY <2>1, <2>2, FS_SurjSameCardinalityImpliesInj
  <2>4. QED
    BY <2>3 DEF Injection, IsInjective, Distinct
<1> DEFINE all == waiting \o line
<1>9. /\ all \in Seq(JobKeys) /\ Len(all) = Len(waiting) + Len(line)
      /\ \A i \in 1..(Len(waiting) + Len(line)) :
           all[i] = IF i <= Len(waiting) THEN waiting[i] ELSE line[i - Len(waiting)]
      /\ Range(all) = Range(waiting) \cup fresh
      /\ waiting \in Seq(JobKeys)
  <2>1. waiting \in Seq(JobKeys)
    BY DEF JobsOK
  <2>2. /\ all \in Seq(JobKeys) /\ Len(all) = Len(waiting) + Len(line)
        /\ \A i \in 1..(Len(waiting) + Len(line)) :
             all[i] = IF i <= Len(waiting) THEN waiting[i] ELSE line[i - Len(waiting)]
    BY <1>7, <2>1, ConcatProperties
  <2>3. Range(all) = Range(waiting) \cup Range(line)
    BY <1>7, <2>1, RangeConcatenation
  <2>4. QED
    BY <1>5, <2>1, <2>2, <2>3
<1> HIDE DEF all
<1>10. Distinct(all)
  <2>1. /\ DOMAIN all = 1..(Len(waiting) + Len(line))
        /\ DOMAIN waiting = 1..Len(waiting) /\ Len(waiting) \in Nat
        /\ DOMAIN line = 1..Len(line) /\ Len(line) \in Nat
    BY <1>7, <1>9, LenProperties
  <2>2. \A i \in DOMAIN waiting : \A j \in DOMAIN line : waiting[i] # line[j]
    BY <1>5 DEF fresh, Range
  <2>3. SUFFICES ASSUME NEW i \in DOMAIN all, NEW j \in DOMAIN all, all[i] = all[j]
                 PROVE  i = j
    BY DEF Distinct
  <2>4. CASE i <= Len(waiting) /\ j <= Len(waiting)
    BY <1>9, <2>1, <2>3, <2>4 DEF JobsOK, Distinct
  <2>5. CASE i > Len(waiting) /\ j > Len(waiting)
    <3>1. /\ i - Len(waiting) \in DOMAIN line /\ j - Len(waiting) \in DOMAIN line
          /\ line[i - Len(waiting)] = line[j - Len(waiting)]
      BY <1>9, <2>1, <2>3, <2>5
    <3>2. i - Len(waiting) = j - Len(waiting)
      BY <1>8, <3>1 DEF Distinct
    <3>3. QED
      BY <2>1, <3>2
  <2>6. CASE i <= Len(waiting) /\ j > Len(waiting)
    <3>1. /\ i \in DOMAIN waiting /\ j - Len(waiting) \in DOMAIN line
          /\ waiting[i] = line[j - Len(waiting)]
      BY <1>9, <2>1, <2>3, <2>6
    <3>2. QED
      BY <2>2, <3>1
  <2>7. CASE i > Len(waiting) /\ j <= Len(waiting)
    <3>1. /\ j \in DOMAIN waiting /\ i - Len(waiting) \in DOMAIN line
          /\ waiting[j] = line[i - Len(waiting)]
      BY <1>9, <2>1, <2>3, <2>7
    <3>2. QED
      BY <2>2, <3>1
  <2>8. QED
    BY <2>1, <2>4, <2>5, <2>6, <2>7
<1>11. running \cap Range(all) = {}
  BY <1>9 DEF fresh, JobsOK
<1>12. Drain(running, all)
  BY <1>1 DEF all
<1>13. JobsOK' /\ InFlight' = running \cup Range(all)
  BY <1>9, <1>10, <1>11, <1>12, DrainKeeps DEF JobsOK
<1>14. running \cup Range(all) = InFlight \cup asked
  BY <1>9 DEF InFlight, fresh
<1>15. QED
  BY <1>13, <1>14 DEF asked

-------------------------------------------------------------------------------
(* The invariant.                                                            *)

Card ==
  [ coordinate : Coordinates, manifest : Manifests,
    resolution : {"pending", "ready", "unavailable"} ]

MaybeList == ListEvent \cup {None}

\* Every list kept was decoded, and is kept under its author.
StoreOK ==
  /\ identity \in Identities
  /\ sync \in {"off", "open", "complete", "error"}
  /\ store \in [Keys -> MaybeList]
  /\ \A k \in Keys : store[k] # None => store[k].pubkey = k /\ IsList(store[k].entries)

\* The list shown is of the account signed in, and the store has one of it.
ProjectionOK ==
  /\ projection \in [ event : MaybeList, entries : Seq(Card),
                      status : {"idle", "refreshing", "ready", "stale", "error"} ]
  /\ projection.event = None => projection.entries = <<>>
  /\ ProjectionIsOwn
  /\ projection.event # None => store[projection.event.pubkey] # None

CardsOK ==
  /\ ProjectionOK
  /\ PendingHasJob
  /\ ReadyHasArtifact
  /\ verified \subseteq JobKeys
  /\ JobsOK

\* A change in progress is made by an active account, on the list it started
\* from; a list it asks a signature for is that one, edited.
MutationOK ==
  mutating # None =>
    /\ mutating \in [ change : Change, identity : Identities, base : MaybeList,
                      event : MaybeList,
                      awaits : {"update", "signature", "publish"} ]
    /\ mutating.identity.status = "active"
    /\ mutating.change.op = "approve" => mutating.change.source = mutating.base
    /\ mutating.base # None => IsList(mutating.base.entries)
    /\ mutating.awaits # "update" =>
         /\ mutating.event \in ListEvent
         /\ mutating.event.pubkey = mutating.identity.pubkey
         /\ mutating.event.entries = Edited(mutating.change, EntriesOf(mutating.base))
         /\ IsList(mutating.event.entries)

ChangesOK ==
  /\ queue \in Seq(Change)
  /\ requests \in 0..MaxRequests
  /\ reviewed \in MaybeList
  /\ MutationOK

LaunchesOK ==
  /\ launches \subseteq [identity : Identities, event : ListEvent, entry : Entry]
  /\ released = None \/ released.event \in ListEvent

CatalogInv ==
  /\ StoreOK
  /\ CardsOK
  /\ ChangesOK
  /\ LaunchesOK
  /\ ReleasedIsAccepted

-------------------------------------------------------------------------------
(* The cards.                                                                *)

LEMMA IdentityIsKnown ==
  ASSUME NEW i \in Identities
  PROVE  /\ i.pubkey \in Keys \cup {None}
         /\ i.status = "active" => i.pubkey \in Keys
BY ConstantsAssumption DEF Identities, UNAVAILABLE

\* The newest list of the account signed in.
LEMMA CurrentIsOwn ==
  ASSUME StoreOK
  PROVE  /\ CurrentCatalogEvent \in MaybeList
         /\ CurrentCatalogEvent # None =>
              /\ identity.pubkey \in Keys
              /\ CurrentCatalogEvent = store[identity.pubkey]
              /\ CurrentCatalogEvent.pubkey = identity.pubkey
              /\ IsList(CurrentCatalogEvent.entries)
<1>1. identity.pubkey \in Keys \cup {None}
  BY IdentityIsKnown DEF StoreOK
<1>2. CASE identity.pubkey = None
  BY <1>2 DEF CurrentCatalogEvent, MaybeList
<1>3. CASE identity.pubkey # None
  <2>1. identity.pubkey \in Keys /\ CurrentCatalogEvent = store[identity.pubkey]
    BY <1>1, <1>3 DEF CurrentCatalogEvent
  <2>2. QED
    BY <2>1 DEF StoreOK
<1>4. QED
  BY <1>2, <1>3

\* What is known of an entry is of its own type, and is "ready" only with its
\* artifact at hand.
LEMMA ResolutionIsKnown ==
  ASSUME CardsOK, NEW event, NEW entry, NEW force
  PROVE  /\ Resolution(event, entry, force) \in {"pending", "ready", "unavailable"}
         /\ Resolution(event, entry, force) = "ready" => JobKey(event, entry) \in verified
<1> DEFINE held == { p \in Range(projection.entries) :
                       /\ projection.event = event /\ ~force
                       /\ p.coordinate = entry.coordinate
                       /\ p.manifest = entry.manifest }
           known == CHOOSE p \in held : TRUE
<1>1. CASE held = {}
  BY <1>1 DEF Resolution
<1>2. CASE held # {}
  <2>1. Resolution(event, entry, force) = known.resolution
    BY <1>2 DEF Resolution
  <2>2. known \in held
    BY <1>2
  <2> HIDE DEF known
  <2>3. /\ known \in Range(projection.entries) /\ projection.event = event
        /\ known.coordinate = entry.coordinate /\ known.manifest = entry.manifest
    BY <2>2
  <2>4. JobKey(event, entry) = JobKey(projection.event, known)
    BY <2>3 DEF JobKey
  <2>5. projection.entries \in Seq(Card)
    BY DEF CardsOK, ProjectionOK
  <2>6. known \in Card
    BY <2>3, <2>5, RangeOfSeq
  <2>7. known.resolution \in {"pending", "ready", "unavailable"}
    BY <2>6 DEF Card
  <2>8. known.resolution = "ready" => JobKey(projection.event, known) \in verified
    BY <2>3 DEF CardsOK, ReadyHasArtifact
  <2>9. QED
    BY <2>1, <2>4, <2>7, <2>8
<1>3. QED
  BY <1>1, <1>2

\* No cards need nothing.
LEMMA NoCards ==
  ASSUME CardsOK, NEW s \in {"idle", "refreshing"},
         projection' = [EMPTY EXCEPT !.status = s],
         verified' \subseteq verified, UNCHANGED jobs
  PROVE  CardsOK' /\ projection'.event = None
<1> DEFINE none == <<>>
<1>1. projection' = [event |-> None, entries |-> none, status |-> s]
  BY DEF EMPTY
<1>2. none \in Seq(Card)
  BY EmptySeq
<1>3. \A x : x \in DOMAIN none => FALSE
  OBVIOUS
<1> HIDE DEF none
<1>4. /\ projection'.event = None /\ projection'.entries = none
      /\ projection' \in [ event : MaybeList, entries : Seq(Card),
                           status : {"idle", "refreshing", "ready", "stale", "error"} ]
  <2>1. None \in MaybeList /\ s \in {"idle", "refreshing", "ready", "stale", "error"}
    BY DEF MaybeList
  <2>2. projection'.event = None /\ projection'.entries = none
    BY <1>1
  <2>3. QED
    BY <1>1, <1>2, <2>1, <2>2
<1>5. Range(projection'.entries) = {}
  BY <1>3, <1>4 DEF Range
<1>6. ProjectionOK'
  BY <1>4 DEF ProjectionOK, ProjectionIsOwn, none
<1>7. JobsOK'
  BY DEF CardsOK, JobsOK, Distinct, jobs
<1>8. QED
  BY <1>4, <1>5, <1>6, <1>7 DEF CardsOK, PendingHasJob, ReadyHasArtifact

\* The same cards of the same account, perhaps under another status.
LEMMA SameCards ==
  ASSUME CardsOK, NEW s \in {"idle", "refreshing", "ready", "stale", "error"},
         projection' = [projection EXCEPT !.status = s],
         identity'.pubkey = identity.pubkey, UNCHANGED <<store, verified, jobs>>
  PROVE  CardsOK' /\ projection'.event = projection.event
<1>1. projection \in [ event : MaybeList, entries : Seq(Card),
                       status : {"idle", "refreshing", "ready", "stale", "error"} ]
  BY DEF CardsOK, ProjectionOK
<1>2. /\ projection'.event = projection.event
      /\ projection'.entries = projection.entries
      /\ projection' \in [ event : MaybeList, entries : Seq(Card),
                           status : {"idle", "refreshing", "ready", "stale", "error"} ]
  BY <1>1
<1>3. ProjectionOK'
  BY <1>2 DEF CardsOK, ProjectionOK, ProjectionIsOwn
<1>4. JobsOK' /\ InFlight' = InFlight
  BY DEF CardsOK, JobsOK, Distinct, jobs, InFlight
<1>5. PendingHasJob'
  BY <1>2, <1>4 DEF CardsOK, PendingHasJob, InFlight
<1>6. ReadyHasArtifact'
  BY <1>2 DEF CardsOK, ReadyHasArtifact
<1>7. verified' \subseteq JobKeys
  BY DEF CardsOK
<1>8. QED
  BY <1>2, <1>3, <1>4, <1>5, <1>6, <1>7 DEF CardsOK

\* #refresh shows the list it is given, with a job for each pending card.
LEMMA RefreshKeeps ==
  ASSUME CardsOK, NEW event \in MaybeList,
         event # None => /\ event.pubkey = identity.pubkey
                         /\ IsList(event.entries)
                         /\ store'[event.pubkey] # None,
         NEW force, Refresh(event, force), UNCHANGED <<identity, verified>>
  PROVE  CardsOK' /\ projection'.event = event
<1>1. CASE event = None
  <2>1. projection' = EMPTY /\ UNCHANGED jobs
    BY <1>1 DEF Refresh
  <2>2. projection' = [EMPTY EXCEPT !.status = "idle"]
    BY <2>1 DEF EMPTY
  <2>3. QED
    BY <1>1, <2>1, <2>2, NoCards
<1>2. CASE event # None
  <2> DEFINE cards == [ i \in DOMAIN event.entries |->
                          [ coordinate |-> event.entries[i].coordinate,
                            manifest   |-> event.entries[i].manifest,
                            resolution |->
                              Resolution(event, event.entries[i], force) ] ]
             asked == {JobKey(event, e) : e \in Wanted(event, force)}
  <2>1. /\ projection' = [event |-> event, entries |-> cards, status |-> "refreshing"]
        /\ Enqueue(event, Wanted(event, force))
    BY <1>2 DEF Refresh
  <2>2. event \in ListEvent /\ event.entries \in Seq(Entry)
    BY <1>2 DEF MaybeList, ListEvent
  <2>3. JobsOK' /\ InFlight' = InFlight \cup asked
    <3>1. Wanted(event, force) \subseteq Range(event.entries)
      BY DEF Wanted
    <3>2. QED
      BY <2>1, <2>2, <3>1, EnqueueKeeps DEF CardsOK
  <2>4. \A i \in DOMAIN event.entries :
          /\ cards[i] \in Card
          /\ JobKey(event, cards[i]) = JobKey(event, event.entries[i])
          /\ cards[i].resolution = Resolution(event, event.entries[i], force)
    <3>1. SUFFICES ASSUME NEW i \in DOMAIN event.entries
                   PROVE  /\ cards[i] \in Card
                          /\ JobKey(event, cards[i]) = JobKey(event, event.entries[i])
                          /\ cards[i].resolution = Resolution(event, event.entries[i], force)
      OBVIOUS
    <3>2. event.entries[i] \in Entry
      <4>1. i \in 1..Len(event.entries)
        BY <2>2, LenProperties
      <4>2. QED
        BY <2>2, <4>1, ElementOfSeq
    <3>3. Resolution(event, event.entries[i], force) \in {"pending", "ready", "unavailable"}
      BY ResolutionIsKnown
    <3>4. QED
      BY <3>2, <3>3 DEF Card, Entry, JobKey
  <2>5. DOMAIN cards = DOMAIN event.entries
    OBVIOUS
  <2>6. cards \in Seq(Card)
    <3>1. DOMAIN event.entries = 1..Len(event.entries) /\ Len(event.entries) \in Nat
      BY <2>2, LenProperties
    <3>2. cards = [i \in 1..Len(event.entries) |-> cards[i]]
      BY <3>1
    <3> HIDE DEF cards
    <3>3. cards \in [1..Len(event.entries) -> Card]
      BY <2>4, <3>1, <3>2
    <3>4. QED
      BY <3>1, <3>3
  <2> HIDE DEF cards, asked
  <2>7. projection'.event = event /\ projection'.entries = cards
    BY <2>1
  <2>8. ProjectionOK'
    <3>1. projection' \in [ event : MaybeList, entries : Seq(Card),
                            status : {"idle", "refreshing", "ready", "stale", "error"} ]
      BY <2>1, <2>6
    <3>2. QED
      BY <1>2, <2>7, <3>1 DEF ProjectionOK, ProjectionIsOwn
  <2>9. \A p \in Range(cards) : \E e \in Range(event.entries) :
          /\ JobKey(event, p) = JobKey(event, e)
          /\ p.resolution = Resolution(event, e, force)
    BY <2>4, <2>5 DEF Range
  <2>10. PendingHasJob'
    <3>1. SUFFICES ASSUME NEW p \in Range(cards), p.resolution = "pending"
                   PROVE  JobKey(event, p) \in InFlight'
      BY <2>7 DEF PendingHasJob, InFlight
    <3>2. PICK e \in Range(event.entries) :
            /\ JobKey(event, p) = JobKey(event, e)
            /\ p.resolution = Resolution(event, e, force)
      BY <2>9
    <3>3. e \in Wanted(event, force)
      BY <3>1, <3>2 DEF Wanted
    <3>4. QED
      BY <2>3, <3>2, <3>3 DEF asked
  <2>11. ReadyHasArtifact'
    <3>1. SUFFICES ASSUME NEW p \in Range(cards), p.resolution = "ready"
                   PROVE  JobKey(event, p) \in verified
      BY <2>7 DEF ReadyHasArtifact
    <3>2. PICK e \in Range(event.entries) :
            /\ JobKey(event, p) = JobKey(event, e)
            /\ p.resolution = Resolution(event, e, force)
      BY <2>9
    <3>3. QED
      BY <3>1, <3>2, ResolutionIsKnown
  <2>12. QED
    BY <2>3, <2>7, <2>8, <2>10, <2>11 DEF CardsOK
<1>3. QED
  BY <1>1, <1>2

-------------------------------------------------------------------------------
(* The end of a job.                                                         *)

\* The slot of a job that ended is used again, and no other job is lost.
LEMMA FreeSlotKeeps ==
  ASSUME JobsOK, NEW k \in running, FreeSlot(k)
  PROVE  JobsOK' /\ InFlight' = InFlight \ {k}
<1> DEFINE held == running \ {k}
<1>1. /\ held \subseteq JobKeys /\ IsFiniteSet(held)
      /\ Cardinality(held) = Cardinality(running) - 1
  BY FS_RemoveElement DEF JobsOK
<1>2. Cardinality(running) \in Nat /\ MaxJobs \in Nat /\ Cardinality(running) <= MaxJobs
  BY FS_CardinalityType, ConstantsAssumption DEF JobsOK
<1>3. Cardinality(held) <= MaxJobs
  BY <1>1, <1>2
<1>4. waiting \in Seq(JobKeys) /\ Distinct(waiting) /\ held \cap Range(waiting) = {}
  BY DEF JobsOK
<1>5. Drain(held, waiting)
  BY DEF FreeSlot
<1>6. held \cup Range(waiting) = InFlight \ {k}
  BY DEF InFlight, JobsOK
<1> HIDE DEF held
<1>7. QED
  BY <1>1, <1>3, <1>4, <1>5, <1>6, DrainKeeps

\* A result is applied to the card it was asked for, and to that one only.
LEMMA JobEndsKeeps ==
  ASSUME CardsOK, NEW k, NEW ok \in BOOLEAN, JobEnds(k, ok)
  PROVE  CardsOK' /\ projection'.event = projection.event
<1>1. /\ k \in running /\ FreeSlot(k)
      /\ UNCHANGED <<identity, store>>
  BY DEF JobEnds
<1>2. JobsOK /\ ProjectionOK /\ PendingHasJob /\ ReadyHasArtifact /\ verified \subseteq JobKeys
  BY DEF CardsOK
<1>3. JobsOK' /\ InFlight' = InFlight \ {k}
  BY <1>1, <1>2, FreeSlotKeeps
<1>4. k \in JobKeys /\ k.event # None
  <2>1. k \in JobKeys
    BY <1>1, <1>2 DEF JobsOK
  <2>2. QED
    BY <2>1, ConstantsAssumption DEF JobKeys
<1>5. CASE StaleResult(k)
  <2>1. UNCHANGED shown
    BY <1>5 DEF JobEnds
  <2>2. UNCHANGED <<projection, verified>>
    BY <2>1 DEF shown
  <2>3. projection.event # k.event
    BY <1>2, <1>4, <1>5 DEF StaleResult, ProjectionOK, ProjectionIsOwn
  <2>4. \A p : JobKey(projection.event, p) # k
    BY <2>3 DEF JobKey
  <2>5. PendingHasJob'
    BY <1>2, <1>3, <2>2, <2>4 DEF PendingHasJob, InFlight
  <2>6. ProjectionOK' /\ ReadyHasArtifact' /\ verified' \subseteq JobKeys
    BY <1>1, <1>2, <2>2 DEF ProjectionOK, ProjectionIsOwn, ReadyHasArtifact
  <2>7. QED
    BY <1>3, <2>2, <2>5, <2>6 DEF CardsOK
<1>6. CASE ~StaleResult(k)
  <2> DEFINE old == projection.entries
             cards == [ i \in DOMAIN old |->
                          IF JobKey(k.event, old[i]) = k
                          THEN [old[i] EXCEPT !.resolution = IF ok THEN "ready" ELSE "unavailable"]
                          ELSE old[i] ]
  <2>1. /\ projection'.event = k.event
        /\ projection'.entries = cards
        /\ projection'.status \in {"ready", "refreshing"}
        /\ projection' = [ event |-> projection'.event, entries |-> projection'.entries,
                           status |-> projection'.status ]
        /\ verified' = IF ok THEN verified \cup {k} ELSE verified \ {k}
    BY <1>6 DEF JobEnds
  <2>2. projection.event = k.event
    BY <1>6 DEF StaleResult
  <2>3. old \in Seq(Card)
    BY <1>2 DEF ProjectionOK
  <2>4. DOMAIN old = 1..Len(old) /\ Len(old) \in Nat /\ \A i \in DOMAIN old : old[i] \in Card
    BY <2>3, LenProperties, ElementOfSeq
  <2>5. \A i \in DOMAIN old :
          /\ cards[i] \in Card
          /\ JobKey(k.event, cards[i]) = JobKey(k.event, old[i])
          /\ JobKey(k.event, old[i]) = k =>
               cards[i].resolution = IF ok THEN "ready" ELSE "unavailable"
          /\ JobKey(k.event, old[i]) # k => cards[i] = old[i]
    <3>1. SUFFICES ASSUME NEW i \in DOMAIN old
                   PROVE  /\ cards[i] \in Card
                          /\ JobKey(k.event, cards[i]) = JobKey(k.event, old[i])
                          /\ JobKey(k.event, old[i]) = k =>
                               cards[i].resolution = IF ok THEN "ready" ELSE "unavailable"
                          /\ JobKey(k.event, old[i]) # k => cards[i] = old[i]
      OBVIOUS
    <3>2. CASE JobKey(k.event, old[i]) = k
      <4> DEFINE r == IF ok THEN "ready" ELSE "unavailable"
      <4>1. cards[i] = [old[i] EXCEPT !.resolution = r] /\ old[i] \in Card
        BY <2>4, <3>2
      <4>2. r \in {"pending", "ready", "unavailable"}
        OBVIOUS
      <4> HIDE DEF r, cards
      <4>3. cards[i] = [ coordinate |-> old[i].coordinate, manifest |-> old[i].manifest,
                         resolution |-> r ]
        BY <4>1 DEF Card
      <4>4. cards[i] \in Card
        BY <4>1, <4>2, <4>3 DEF Card
      <4>5. JobKey(k.event, cards[i]) = JobKey(k.event, old[i]) /\ cards[i].resolution = r
        BY <4>3 DEF JobKey
      <4>6. QED
        BY <3>2, <4>4, <4>5 DEF r
    <3>3. CASE JobKey(k.event, old[i]) # k
      BY <2>4, <3>3
    <3>4. QED
      BY <3>2, <3>3
  <2>6. DOMAIN cards = DOMAIN old
    OBVIOUS
  <2>7. cards \in Seq(Card)
    <3>1. cards = [i \in 1..Len(old) |-> cards[i]]
      BY <2>4
    <3> HIDE DEF cards
    <3>2. cards \in [1..Len(old) -> Card]
      BY <2>4, <2>5, <3>1
    <3>3. QED
      BY <2>4, <3>2
  <2> HIDE DEF cards, old
  <2>8. ProjectionOK'
    <3>1. projection.event \in MaybeList
      BY <1>2 DEF ProjectionOK
    <3>2. projection' \in [ event : MaybeList, entries : Seq(Card),
                            status : {"idle", "refreshing", "ready", "stale", "error"} ]
      BY <2>1, <2>2, <2>7, <3>1
    <3>3. QED
      BY <1>1, <1>2, <1>4, <2>1, <2>2, <3>2 DEF ProjectionOK, ProjectionIsOwn
  <2>9. \A p \in Range(cards) : \E o \in Range(old) :
          /\ JobKey(k.event, p) = JobKey(k.event, o)
          /\ JobKey(k.event, o) = k =>
               p.resolution = IF ok THEN "ready" ELSE "unavailable"
          /\ JobKey(k.event, o) # k => p = o
    BY <2>5, <2>6 DEF Range
  <2>10. PendingHasJob'
    <3>1. SUFFICES ASSUME NEW p \in Range(cards), p.resolution = "pending"
                   PROVE  JobKey(k.event, p) \in InFlight'
      BY <2>1 DEF PendingHasJob, InFlight
    <3>2. PICK o \in Range(old) :
            /\ JobKey(k.event, p) = JobKey(k.event, o)
            /\ JobKey(k.event, o) = k =>
                 p.resolution = IF ok THEN "ready" ELSE "unavailable"
            /\ JobKey(k.event, o) # k => p = o
      BY <2>9
    <3>3. JobKey(k.event, o) # k /\ p = o
      BY <3>1, <3>2
    <3>4. JobKey(k.event, p) \in InFlight
      BY <1>2, <2>2, <3>1, <3>3 DEF PendingHasJob, InFlight, old
    <3>5. QED
      BY <1>3, <3>3, <3>4
  <2>11. ReadyHasArtifact'
    <3>1. SUFFICES ASSUME NEW p \in Range(cards), p.resolution = "ready"
                   PROVE  JobKey(k.event, p) \in verified'
      BY <2>1 DEF ReadyHasArtifact
    <3>2. PICK o \in Range(old) :
            /\ JobKey(k.event, p) = JobKey(k.event, o)
            /\ JobKey(k.event, o) = k =>
                 p.resolution = IF ok THEN "ready" ELSE "unavailable"
            /\ JobKey(k.event, o) # k => p = o
      BY <2>9
    <3>3. CASE JobKey(k.event, o) = k
      BY <2>1, <3>1, <3>2, <3>3
    <3>4. CASE JobKey(k.event, o) # k
      <4>1. JobKey(k.event, p) \in verified
        BY <1>2, <2>2, <3>1, <3>2, <3>4 DEF ReadyHasArtifact, old
      <4>2. QED
        BY <2>1, <3>2, <3>4, <4>1
    <3>5. QED
      BY <3>3, <3>4
  <2>12. verified' \subseteq JobKeys
    BY <1>2, <1>4, <2>1
  <2>13. QED
    BY <1>3, <2>1, <2>2, <2>8, <2>10, <2>11, <2>12 DEF CardsOK
<1>7. QED
  BY <1>5, <1>6

-------------------------------------------------------------------------------
(* One lemma per action.                                                     *)

LEMMA ReplaceKeeps ==
  ASSUME StoreOK, CardsOK, NEW i \in Identities, NEW signal \in BOOLEAN,
         NEW s \in {"idle", "refreshing", "ready", "stale", "error"},
         Replace(i, signal, [projection EXCEPT !.status = s]),
         identity' = i, signal \/ i = identity, UNCHANGED <<store, jobs>>
  PROVE  /\ StoreOK' /\ CardsOK'
         /\ projection'.event = projection.event \/ identity'.pubkey # identity.pubkey
<1> DEFINE reset == signal /\ AccountChanges(i)
<1>1. StoreOK'
  BY DEF StoreOK, Replace
<1>2. CASE reset
  <2>1. verified' = {}
    BY <1>2 DEF Replace
  <2>2. PICK u \in {"idle", "refreshing"} : projection' = [EMPTY EXCEPT !.status = u]
    <3>1. projection' = IF i.pubkey = None THEN EMPTY ELSE [EMPTY EXCEPT !.status = "refreshing"]
      BY <1>2 DEF Replace
    <3>2. EMPTY = [EMPTY EXCEPT !.status = "idle"]
      BY DEF EMPTY
    <3>3. QED
      BY <3>1, <3>2
  <2>3. CardsOK'
    BY <2>1, <2>2, NoCards
  <2>4. QED
    BY <1>1, <1>2, <2>3 DEF AccountChanges
<1>3. CASE ~reset
  <2>1. UNCHANGED verified /\ identity'.pubkey = identity.pubkey
    BY <1>3 DEF Replace, AccountChanges
  <2>2. PICK u \in {"idle", "refreshing", "ready", "stale", "error"} :
          projection' = [projection EXCEPT !.status = u]
    <3>1. projection' = IF i.pubkey = None THEN [projection EXCEPT !.status = s]
                        ELSE [[projection EXCEPT !.status = s] EXCEPT !.status = "refreshing"]
      BY <1>3 DEF Replace
    <3>2. [[projection EXCEPT !.status = s] EXCEPT !.status = "refreshing"] =
            [projection EXCEPT !.status = "refreshing"]
      BY DEF CardsOK, ProjectionOK
    <3>3. QED
      BY <3>1, <3>2
  <2>3. CardsOK' /\ projection'.event = projection.event
    BY <2>1, <2>2, SameCards
  <2>4. QED
    BY <1>1, <2>3
<1>4. QED
  BY <1>2, <1>3

LEMMA SourcesEmitKeeps ==
  ASSUME CatalogInv, NEW i, SourcesEmit(i)
  PROVE  CatalogInv' /\ (projection'.event = projection.event
                           \/ identity'.pubkey # identity.pubkey)
<1>1. /\ i \in Identities /\ identity' = i /\ Replace(i, TRUE, projection)
      /\ released' = None /\ UNCHANGED <<store, jobs, changes, launches>>
  BY DEF SourcesEmit
<1>2. projection = [projection EXCEPT !.status = projection.status]
      /\ projection.status \in {"idle", "refreshing", "ready", "stale", "error"}
  BY DEF CatalogInv, CardsOK, ProjectionOK
<1>3. /\ StoreOK' /\ CardsOK'
      /\ projection'.event = projection.event \/ identity'.pubkey # identity.pubkey
  BY <1>1, <1>2, ReplaceKeeps DEF CatalogInv
<1>4. ChangesOK'
  BY <1>1 DEF CatalogInv, ChangesOK, MutationOK, changes
<1>5. LaunchesOK' /\ ReleasedIsAccepted'
  BY <1>1 DEF CatalogInv, LaunchesOK, ReleasedIsAccepted
<1>6. QED
  BY <1>3, <1>4, <1>5 DEF CatalogInv

LEMMA ReconnectKeeps ==
  ASSUME CatalogInv, Reconnect
  PROVE  CatalogInv' /\ (projection'.event = projection.event
                           \/ identity'.pubkey # identity.pubkey)
<1>1. /\ Replace(identity, FALSE, [projection EXCEPT !.status = "stale"])
      /\ released' = None /\ UNCHANGED <<identity, store, jobs, changes, launches>>
  BY DEF Reconnect
<1>2. identity \in Identities
  BY DEF CatalogInv, StoreOK
<1>3. /\ StoreOK' /\ CardsOK'
      /\ projection'.event = projection.event \/ identity'.pubkey # identity.pubkey
  BY <1>1, <1>2, ReplaceKeeps DEF CatalogInv
<1>4. ChangesOK'
  BY <1>1 DEF CatalogInv, ChangesOK, MutationOK, changes
<1>5. LaunchesOK' /\ ReleasedIsAccepted'
  BY <1>1 DEF CatalogInv, LaunchesOK, ReleasedIsAccepted
<1>6. QED
  BY <1>3, <1>4, <1>5 DEF CatalogInv

\* A list the store is given is kept, or a list of the same author is.
LEMMA KeptIsOwn ==
  ASSUME StoreOK, NEW event \in ListEvent, IsList(event.entries)
  PROVE  /\ event.pubkey \in Keys
         /\ Kept(event) \in ListEvent
         /\ Kept(event).pubkey = event.pubkey
         /\ IsList(Kept(event).entries)
<1> DEFINE held == store[event.pubkey]
<1>1. event.pubkey \in Keys
  BY DEF ListEvent
<1>2. held \in MaybeList /\ (held # None => held.pubkey = event.pubkey /\ IsList(held.entries))
  BY <1>1 DEF StoreOK
<1>3. Kept(event) = IF held # None /\ held.at >= event.at THEN held ELSE event
  BY DEF Kept
<1> HIDE DEF held
<1>4. QED
  BY <1>1, <1>2, <1>3 DEF MaybeList

\* A list of the account signed in is stored, and perhaps shown.
LEMMA StoreKeeps ==
  ASSUME StoreOK, CardsOK, NEW event \in ListEvent, IsList(event.entries),
         event.pubkey = identity.pubkey,
         store' = [store EXCEPT ![event.pubkey] = Kept(event)],
         \/ Refresh(Kept(event), FALSE)
         \/ Kept(event) = store[event.pubkey] /\ UNCHANGED <<projection, jobs>>,
         UNCHANGED <<identity, verified, sync>>
  PROVE  /\ StoreOK' /\ CardsOK'
         /\ projection'.event = None => projection.event = None
<1> DEFINE kept == Kept(event)
<1>1. /\ event.pubkey \in Keys /\ kept \in ListEvent
      /\ kept.pubkey = event.pubkey /\ IsList(kept.entries)
  BY KeptIsOwn
<1>2. kept # None /\ kept \in MaybeList
  BY <1>1, ConstantsAssumption DEF MaybeList
<1>3. CASE Refresh(kept, FALSE)
  <2> HIDE DEF kept
  <2>1. store'[kept.pubkey] # None
    BY <1>1, <1>2 DEF StoreOK, kept
  <2>2. CardsOK' /\ projection'.event = kept
    BY <1>1, <1>2, <1>3, <2>1, RefreshKeeps
  <2>3. StoreOK'
    BY <1>1, <1>2 DEF StoreOK, kept
  <2>4. QED
    BY <1>2, <2>2, <2>3
<1>4. CASE kept = store[event.pubkey] /\ UNCHANGED <<projection, jobs>>
  <2>1. UNCHANGED store
    BY <1>1, <1>4 DEF StoreOK
  <2>2. StoreOK'
    BY <2>1 DEF StoreOK
  <2>3. CardsOK'
    BY <1>4, <2>1 DEF CardsOK, ProjectionOK, ProjectionIsOwn, PendingHasJob,
                      ReadyHasArtifact, JobsOK, Distinct, jobs
  <2>4. QED
    BY <1>4, <2>2, <2>3
<1>5. QED
  BY <1>3, <1>4

LEMMA RelayDeliversKeeps ==
  ASSUME CatalogInv, NEW event \in ListEvent, IsList(event.entries), RelayDelivers(event)
  PROVE  CatalogInv' /\ (projection'.event = None => projection.event = None)
<1>1. /\ event.pubkey = identity.pubkey
      /\ store' = [store EXCEPT ![event.pubkey] = Kept(event)]
      /\ \/ Refresh(Kept(event), FALSE)
         \/ Kept(event) = store[event.pubkey] /\ UNCHANGED <<projection, jobs>>
      /\ released' = None /\ UNCHANGED <<identity, verified, sync, changes, launches>>
  BY DEF RelayDelivers
<1>2. StoreOK' /\ CardsOK' /\ (projection'.event = None => projection.event = None)
  BY <1>1, StoreKeeps DEF CatalogInv
<1>3. ChangesOK'
  BY <1>1 DEF CatalogInv, ChangesOK, MutationOK, changes
<1>4. LaunchesOK' /\ ReleasedIsAccepted'
  BY <1>1 DEF CatalogInv, LaunchesOK, ReleasedIsAccepted
<1>5. QED
  BY <1>2, <1>3, <1>4 DEF CatalogInv

LEMMA SyncEndsKeeps ==
  ASSUME CatalogInv, NEW how \in {"complete", "error"}, SyncEnds(how)
  PROVE  CatalogInv' /\ projection'.event = projection.event
<1> DEFINE s == IF how = "complete" THEN "ready" ELSE "error"
<1>1. /\ sync' = how /\ projection' = [projection EXCEPT !.status = s]
      /\ released' = None
      /\ UNCHANGED <<identity, store, verified, jobs, changes, launches>>
  BY DEF SyncEnds
<1>2. s \in {"idle", "refreshing", "ready", "stale", "error"}
  OBVIOUS
<1> HIDE DEF s
<1>3. CardsOK' /\ projection'.event = projection.event
  BY <1>1, <1>2, SameCards DEF CatalogInv
<1>4. StoreOK'
  BY <1>1 DEF CatalogInv, StoreOK
<1>5. ChangesOK'
  BY <1>1 DEF CatalogInv, ChangesOK, MutationOK, changes
<1>6. LaunchesOK' /\ ReleasedIsAccepted'
  BY <1>1 DEF CatalogInv, LaunchesOK, ReleasedIsAccepted
<1>7. QED
  BY <1>3, <1>4, <1>5, <1>6 DEF CatalogInv

\* project, acceptsManifest and retry.
LEMMA ReadKeeps ==
  ASSUME CatalogInv, Project \/ Retry
  PROVE  CatalogInv' /\ (projection'.event = None => projection.event = None)
<1>1. /\ Refresh(CurrentCatalogEvent, FALSE) \/ Refresh(CurrentCatalogEvent, TRUE)
      /\ released' = None
      /\ UNCHANGED <<identity, store, verified, sync, changes, launches>>
  BY DEF Project, Retry
<1>2. /\ CurrentCatalogEvent \in MaybeList
      /\ CurrentCatalogEvent # None =>
           /\ CurrentCatalogEvent.pubkey = identity.pubkey
           /\ IsList(CurrentCatalogEvent.entries)
           /\ store'[CurrentCatalogEvent.pubkey] # None
  BY <1>1, CurrentIsOwn DEF CatalogInv
<1>3. CardsOK' /\ projection'.event = CurrentCatalogEvent
  BY <1>1, <1>2, RefreshKeeps DEF CatalogInv
<1>4. projection.event # None => CurrentCatalogEvent # None
  <2>1. SUFFICES ASSUME projection.event # None PROVE CurrentCatalogEvent # None
    OBVIOUS
  <2>2. projection.event \in ListEvent
    BY <2>1 DEF CatalogInv, CardsOK, ProjectionOK, MaybeList
  <2>3. projection.event.pubkey \in Keys /\ projection.event.pubkey # None
    BY <2>2, ConstantsAssumption DEF ListEvent
  <2>4. projection.event.pubkey = identity.pubkey /\ store[projection.event.pubkey] # None
    BY <2>1 DEF CatalogInv, CardsOK, ProjectionOK, ProjectionIsOwn
  <2>5. QED
    BY <2>3, <2>4 DEF CurrentCatalogEvent
<1>5. StoreOK'
  BY <1>1 DEF CatalogInv, StoreOK
<1>6. ChangesOK'
  BY <1>1 DEF CatalogInv, ChangesOK, MutationOK, changes
<1>7. LaunchesOK' /\ ReleasedIsAccepted'
  BY <1>1 DEF CatalogInv, LaunchesOK, ReleasedIsAccepted
<1>8. QED
  BY <1>3, <1>4, <1>5, <1>6, <1>7 DEF CatalogInv

LEMMA JobEndsKeepsAll ==
  ASSUME CatalogInv, NEW k, NEW ok \in BOOLEAN, JobEnds(k, ok)
  PROVE  CatalogInv' /\ projection'.event = projection.event
<1>1. released' = None /\ UNCHANGED <<identity, store, sync, changes, launches>>
  BY DEF JobEnds
<1>2. CardsOK' /\ projection'.event = projection.event
  BY JobEndsKeeps DEF CatalogInv
<1>3. StoreOK'
  BY <1>1 DEF CatalogInv, StoreOK
<1>4. ChangesOK'
  BY <1>1 DEF CatalogInv, ChangesOK, MutationOK, changes
<1>5. LaunchesOK' /\ ReleasedIsAccepted'
  BY <1>1 DEF CatalogInv, LaunchesOK, ReleasedIsAccepted
<1>6. QED
  BY <1>2, <1>3, <1>4, <1>5 DEF CatalogInv

\* A step of #mutate that shows and stores nothing.
LEMMA QuietKeeps ==
  ASSUME CatalogInv, released' = None, UNCHANGED <<identity, store, shown, jobs, sync>>,
         launches' \subseteq [identity : Identities, event : ListEvent, entry : Entry]
  PROVE  StoreOK' /\ CardsOK' /\ LaunchesOK' /\ ReleasedIsAccepted'
<1>1. StoreOK'
  BY DEF CatalogInv, StoreOK
<1>2. CardsOK'
  BY DEF CatalogInv, CardsOK, ProjectionOK, ProjectionIsOwn, PendingHasJob,
         ReadyHasArtifact, JobsOK, Distinct, jobs, shown
<1>3. LaunchesOK' /\ ReleasedIsAccepted'
  BY DEF LaunchesOK, ReleasedIsAccepted
<1>4. QED
  BY <1>1, <1>2, <1>3

LEMMA PreviewInstallKeeps ==
  ASSUME CatalogInv, PreviewInstall
  PROVE  CatalogInv'
<1>1. /\ reviewed' = CurrentCatalogEvent /\ released' = None
      /\ UNCHANGED <<identity, store, shown, jobs, sync, queue, mutating, requests,
                     launches>>
  BY DEF PreviewInstall
<1>2. StoreOK' /\ CardsOK' /\ LaunchesOK' /\ ReleasedIsAccepted'
  <2>1. launches' \subseteq [identity : Identities, event : ListEvent, entry : Entry]
    BY <1>1 DEF CatalogInv, LaunchesOK
  <2>2. QED
    BY <1>1, <2>1, QuietKeeps
<1>3. CurrentCatalogEvent \in MaybeList
  BY CurrentIsOwn DEF CatalogInv
<1>4. ChangesOK'
  BY <1>1, <1>3 DEF CatalogInv, ChangesOK, MutationOK
<1>5. QED
  BY <1>2, <1>4 DEF CatalogInv

LEMMA RequestKeeps ==
  ASSUME CatalogInv, NEW op \in {"approve", "uninstall"}, NEW entry \in Entry,
         Request(op, entry)
  PROVE  CatalogInv'
<1> DEFINE asked == [ op |-> op, entry |-> entry, source |-> reviewed,
                      by |-> IF mutating = None THEN None ELSE identity.pubkey ]
<1>1. /\ requests < MaxRequests /\ requests' = requests + 1
      /\ queue' = Append(queue, asked) /\ released' = None
      /\ UNCHANGED <<identity, store, shown, jobs, sync, mutating, reviewed, launches>>
  BY DEF Request
<1>2. StoreOK' /\ CardsOK' /\ LaunchesOK' /\ ReleasedIsAccepted'
  <2>1. launches' \subseteq [identity : Identities, event : ListEvent, entry : Entry]
    BY <1>1 DEF CatalogInv, LaunchesOK
  <2>2. QED
    BY <1>1, <2>1, QuietKeeps
<1>3. asked \in Change
  <2>1. identity.pubkey \in Keys \cup {None}
    BY IdentityIsKnown DEF CatalogInv, StoreOK
  <2>2. reviewed \in ListEvent \cup {None}
    BY DEF CatalogInv, ChangesOK, MaybeList
  <2>3. QED
    BY <2>1, <2>2 DEF Change
<1> HIDE DEF asked
<1>4. queue' \in Seq(Change)
  BY <1>1, <1>3, AppendProperties DEF CatalogInv, ChangesOK
<1>5. requests' \in 0..MaxRequests
  BY <1>1, ConstantsAssumption DEF CatalogInv, ChangesOK
<1>6. ChangesOK'
  BY <1>1, <1>4, <1>5 DEF CatalogInv, ChangesOK, MutationOK
<1>7. QED
  BY <1>2, <1>6 DEF CatalogInv

LEMMA StartMutationKeeps ==
  ASSUME CatalogInv, StartMutation
  PROVE  CatalogInv'
<1> DEFINE change == Head(queue)
           begun  == [ change |-> change, identity |-> identity,
                       base |-> CurrentCatalogEvent, awaits |-> "update", event |-> None ]
           starts == identity.status = "active" /\ SourceIsCurrent(change)
<1>1. /\ queue # <<>> /\ queue' = Tail(queue)
      /\ mutating' = IF starts THEN begun ELSE None
      /\ released' = None
      /\ UNCHANGED <<identity, store, shown, jobs, sync, requests, reviewed, launches>>
  BY DEF StartMutation
<1>2. StoreOK' /\ CardsOK' /\ LaunchesOK' /\ ReleasedIsAccepted'
  <2>1. launches' \subseteq [identity : Identities, event : ListEvent, entry : Entry]
    BY <1>1 DEF CatalogInv, LaunchesOK
  <2>2. QED
    BY <1>1, <2>1, QuietKeeps
<1>3. queue \in Seq(Change)
  BY DEF CatalogInv, ChangesOK
<1>4. change \in Change /\ queue' \in Seq(Change)
  BY <1>1, <1>3, HeadTailProperties
<1> HIDE DEF change
<1>5. MutationOK'
  <2>1. CASE starts
    <3>1. mutating' = begun
      BY <1>1, <2>1
    <3>2. /\ CurrentCatalogEvent \in MaybeList /\ identity \in Identities /\ None \in MaybeList
          /\ CurrentCatalogEvent # None => IsList(CurrentCatalogEvent.entries)
      BY CurrentIsOwn DEF CatalogInv, StoreOK, MaybeList
    <3>3. begun \in [ change : Change, identity : Identities, base : MaybeList,
                      event : MaybeList,
                      awaits : {"update", "signature", "publish"} ]
      BY <1>4, <3>2
    <3>4. /\ begun.identity.status = "active" /\ begun.awaits = "update"
          /\ begun.change.op = "approve" => begun.change.source = begun.base
          /\ begun.base # None => IsList(begun.base.entries)
      BY <2>1, <3>2 DEF SourceIsCurrent
    <3> HIDE DEF begun
    <3>5. QED
      BY <3>1, <3>3, <3>4 DEF MutationOK
  <2>2. CASE ~starts
    BY <1>1, <2>2 DEF MutationOK
  <2>3. QED
    BY <2>1, <2>2
<1>6. ChangesOK'
  BY <1>1, <1>4, <1>5 DEF CatalogInv, ChangesOK
<1>7. QED
  BY <1>2, <1>6 DEF CatalogInv

LEMMA MutationFailsKeeps ==
  ASSUME CatalogInv, MutationFails
  PROVE  CatalogInv'
<1>1. /\ mutating' = None /\ UNCHANGED <<queue, requests, reviewed>>
      /\ released' = None /\ UNCHANGED <<identity, store, shown, jobs, sync, launches>>
  BY DEF MutationFails, EndMutation, QuietStep
<1>2. StoreOK' /\ CardsOK' /\ LaunchesOK' /\ ReleasedIsAccepted'
  <2>1. launches' \subseteq [identity : Identities, event : ListEvent, entry : Entry]
    BY <1>1 DEF CatalogInv, LaunchesOK
  <2>2. QED
    BY <1>1, <2>1, QuietKeeps
<1>3. ChangesOK'
  BY <1>1 DEF CatalogInv, ChangesOK, MutationOK
<1>4. QED
  BY <1>2, <1>3 DEF CatalogInv

LEMMA UpdateAnsweredKeeps ==
  ASSUME CatalogInv, UpdateAnswered
  PROVE  CatalogInv'
<1>1. /\ mutating # None /\ mutating.awaits = "update"
      /\ UNCHANGED <<queue, requests, reviewed>>
      /\ released' = None /\ UNCHANGED <<identity, store, shown, jobs, sync, launches>>
  BY DEF UpdateAnswered, QuietStep
<1>2. StoreOK' /\ CardsOK' /\ LaunchesOK' /\ ReleasedIsAccepted'
  <2>1. launches' \subseteq [identity : Identities, event : ListEvent, entry : Entry]
    BY <1>1 DEF CatalogInv, LaunchesOK
  <2>2. QED
    BY <1>1, <2>1, QuietKeeps
<1> DEFINE list == Edited(mutating.change, EntriesOf(mutating.base))
<1>3. PICK at \in 1..MaxTime :
        mutating' = [ mutating EXCEPT
                        !.awaits = "signature",
                        !.event = [ pubkey |-> mutating.identity.pubkey, at |-> at,
                                    entries |-> list ] ]
  BY DEF UpdateAnswered
<1>4. /\ mutating \in [ change : Change, identity : Identities, base : MaybeList,
                        event : MaybeList,
                        awaits : {"update", "signature", "publish"} ]
      /\ mutating.identity.status = "active"
      /\ mutating.change.op = "approve" => mutating.change.source = mutating.base
      /\ mutating.base # None => IsList(mutating.base.entries)
  BY <1>1 DEF CatalogInv, ChangesOK, MutationOK
<1>5. IsList(list)
  <2>1. IsList(EntriesOf(mutating.base))
    <3>1. CASE mutating.base = None
      <4> DEFINE none == <<>>
      <4>1. none \in Seq(Entry) /\ \A x : x \in DOMAIN none => FALSE
        BY EmptySeq
      <4>2. EntriesOf(mutating.base) = none
        BY <3>1 DEF EntriesOf
      <4> HIDE DEF none
      <4>3. QED
        BY <4>1, <4>2 DEF IsList
    <3>2. CASE mutating.base # None
      BY <1>4, <3>2 DEF EntriesOf
    <3>3. QED
      BY <3>1, <3>2
  <2>2. mutating.change.entry \in Entry
    BY <1>4 DEF Change
  <2>3. QED
    BY <2>1, <2>2, EditedIsList
<1> HIDE DEF list
<1> DEFINE event == [pubkey |-> mutating.identity.pubkey, at |-> at, entries |-> list]
<1>6. /\ event \in ListEvent
      /\ event.pubkey = mutating.identity.pubkey
      /\ event.entries = list
  <2>1. mutating.identity.pubkey \in Keys
    BY <1>4, IdentityIsKnown
  <2>2. list \in Seq(Entry)
    BY <1>5 DEF IsList
  <2>3. QED
    BY <2>1, <2>2 DEF ListEvent
<1> HIDE DEF event
<1>7. mutating' = [mutating EXCEPT !.awaits = "signature", !.event = event]
  BY <1>3 DEF event
<1>8. /\ mutating'.change = mutating.change /\ mutating'.identity = mutating.identity
      /\ mutating'.base = mutating.base /\ mutating'.event = event
      /\ mutating' \in [ change : Change, identity : Identities, base : MaybeList,
                         event : MaybeList,
                         awaits : {"update", "signature", "publish"} ]
  BY <1>4, <1>6, <1>7 DEF MaybeList
<1>9. MutationOK'
  BY <1>4, <1>5, <1>6, <1>8 DEF MutationOK, list
<1>10. ChangesOK'
  BY <1>1, <1>9 DEF CatalogInv, ChangesOK
<1>11. QED
  BY <1>2, <1>10 DEF CatalogInv

LEMMA SignatureAnsweredKeeps ==
  ASSUME CatalogInv, SignatureAnswered
  PROVE  CatalogInv'
<1>1. /\ mutating # None /\ mutating.awaits = "signature"
      /\ mutating' = [mutating EXCEPT !.awaits = "publish"]
      /\ UNCHANGED <<queue, requests, reviewed>>
      /\ released' = None /\ UNCHANGED <<identity, store, shown, jobs, sync, launches>>
  BY DEF SignatureAnswered, QuietStep
<1>2. StoreOK' /\ CardsOK' /\ LaunchesOK' /\ ReleasedIsAccepted'
  <2>1. launches' \subseteq [identity : Identities, event : ListEvent, entry : Entry]
    BY <1>1 DEF CatalogInv, LaunchesOK
  <2>2. QED
    BY <1>1, <2>1, QuietKeeps
<1>3. mutating \in [ change : Change, identity : Identities, base : MaybeList,
                     event : MaybeList,
                     awaits : {"update", "signature", "publish"} ]
  BY <1>1 DEF CatalogInv, ChangesOK, MutationOK
<1>4. /\ mutating'.change = mutating.change /\ mutating'.identity = mutating.identity
      /\ mutating'.base = mutating.base /\ mutating'.event = mutating.event
      /\ mutating' \in [ change : Change, identity : Identities, base : MaybeList,
                         event : MaybeList,
                         awaits : {"update", "signature", "publish"} ]
  BY <1>1, <1>3
<1>5. MutationOK'
  <2>1. /\ mutating.identity.status = "active"
        /\ mutating.change.op = "approve" => mutating.change.source = mutating.base
        /\ mutating.base # None => IsList(mutating.base.entries)
        /\ mutating.event \in ListEvent
        /\ mutating.event.pubkey = mutating.identity.pubkey
        /\ mutating.event.entries = Edited(mutating.change, EntriesOf(mutating.base))
        /\ IsList(mutating.event.entries)
    BY <1>1 DEF CatalogInv, ChangesOK, MutationOK
  <2>2. QED
    BY <1>4, <2>1 DEF MutationOK
<1>6. ChangesOK'
  BY <1>1, <1>5 DEF CatalogInv, ChangesOK
<1>7. QED
  BY <1>2, <1>6 DEF CatalogInv

\* What the authority of a change that awaits its last answer comes to.
LEMMA PublishIsOwn ==
  ASSUME CatalogInv, PublishAnswered
  PROVE  /\ mutating.event \in ListEvent /\ IsList(mutating.event.entries)
         /\ mutating.event.pubkey = identity.pubkey
         /\ mutating.event.entries = Edited(mutating.change, EntriesOf(mutating.base))
         /\ mutating.base = store[mutating.event.pubkey]
         /\ mutating.change.op = "approve" => mutating.change.source = mutating.base
<1>1. /\ mutating # None /\ mutating.awaits = "publish"
      /\ identity.pubkey = mutating.identity.pubkey
      /\ CurrentCatalogEvent = mutating.base
  BY DEF PublishAnswered, MutationAuthority
<1>2. /\ mutating.event \in ListEvent /\ IsList(mutating.event.entries)
      /\ mutating.event.pubkey = mutating.identity.pubkey
      /\ mutating.event.entries = Edited(mutating.change, EntriesOf(mutating.base))
      /\ mutating.change.op = "approve" => mutating.change.source = mutating.base
  BY <1>1 DEF CatalogInv, ChangesOK, MutationOK
<1>3. identity.pubkey # None
  BY <1>1, <1>2, ConstantsAssumption DEF ListEvent
<1>4. mutating.base = store[mutating.event.pubkey]
  BY <1>1, <1>2, <1>3 DEF CurrentCatalogEvent
<1>5. QED
  BY <1>1, <1>2, <1>4

LEMMA PublishAnsweredKeeps ==
  ASSUME CatalogInv, PublishAnswered
  PROVE  CatalogInv' /\ (projection'.event = None => projection.event = None)
<1>1. /\ store' = [store EXCEPT ![mutating.event.pubkey] = Kept(mutating.event)]
      /\ Refresh(Kept(mutating.event), FALSE)
      /\ mutating' = None /\ UNCHANGED <<queue, requests, reviewed>>
      /\ released' = None /\ UNCHANGED <<identity, verified, sync, launches>>
  BY DEF PublishAnswered, EndMutation
<1>2. /\ mutating.event \in ListEvent /\ IsList(mutating.event.entries)
      /\ mutating.event.pubkey = identity.pubkey
  BY PublishIsOwn
<1>3. StoreOK' /\ CardsOK' /\ (projection'.event = None => projection.event = None)
  BY <1>1, <1>2, StoreKeeps DEF CatalogInv
<1>4. ChangesOK'
  BY <1>1 DEF CatalogInv, ChangesOK, MutationOK
<1>5. LaunchesOK' /\ ReleasedIsAccepted'
  BY <1>1 DEF CatalogInv, LaunchesOK, ReleasedIsAccepted
<1>6. QED
  BY <1>3, <1>4, <1>5 DEF CatalogInv

LEMMA LaunchKeeps ==
  ASSUME CatalogInv, NEW entry \in Entry, Launch(entry)
  PROVE  CatalogInv'
<1> DEFINE l == [identity |-> identity, event |-> CurrentCatalogEvent, entry |-> entry]
<1>1. /\ Accepts(CurrentCatalogEvent, entry.coordinate, entry.manifest)
      /\ launches' = launches \cup {l} /\ released' = None
      /\ UNCHANGED <<identity, store, shown, jobs, sync, changes>>
  BY DEF Launch
<1>2. CurrentCatalogEvent \in ListEvent
  <2>1. Range(EntriesOf(None)) = {}
    BY DEF EntriesOf, Range
  <2>2. CurrentCatalogEvent # None
    BY <1>1, <2>1 DEF Accepts
  <2>3. QED
    BY <2>2, CurrentIsOwn DEF CatalogInv, MaybeList
<1>3. launches' \subseteq [identity : Identities, event : ListEvent, entry : Entry]
  BY <1>1, <1>2 DEF CatalogInv, LaunchesOK, StoreOK
<1>4. StoreOK' /\ CardsOK' /\ LaunchesOK' /\ ReleasedIsAccepted'
  BY <1>1, <1>3, QuietKeeps
<1>5. ChangesOK'
  BY <1>1 DEF CatalogInv, ChangesOK, MutationOK, changes
<1>6. QED
  BY <1>4, <1>5 DEF CatalogInv

\* The second half of launch: what is released was accepted at this moment.
LEMMA LaunchAnsweredKeeps ==
  ASSUME CatalogInv, NEW l, NEW ok \in BOOLEAN, LaunchAnswered(l, ok)
  PROVE  CatalogInv'
<1>1. /\ l \in launches /\ launches' = launches \ {l}
      /\ released' = IF ok /\ StillAccepted(l) THEN l ELSE None
      /\ UNCHANGED <<identity, store, shown, jobs, sync, changes>>
  BY DEF LaunchAnswered
<1>2. StoreOK'
  BY <1>1 DEF CatalogInv, StoreOK
<1>3. CardsOK'
  BY <1>1 DEF CatalogInv, CardsOK, ProjectionOK, ProjectionIsOwn, PendingHasJob,
              ReadyHasArtifact, JobsOK, Distinct, jobs, shown
<1>4. ChangesOK'
  BY <1>1 DEF CatalogInv, ChangesOK, MutationOK, changes
<1>5. LaunchesOK'
  BY <1>1 DEF CatalogInv, LaunchesOK
<1>6. ReleasedIsAccepted'
  BY <1>1 DEF StillAccepted, ReleasedIsAccepted, CurrentCatalogEvent
<1>7. QED
  BY <1>2, <1>3, <1>4, <1>5, <1>6 DEF CatalogInv

-------------------------------------------------------------------------------
(* The invariant holds.                                                      *)

LEMMA InitHolds ==
  ASSUME Init PROVE CatalogInv
<1> DEFINE none == <<>>
<1>1. /\ none \in Seq(Card) /\ none \in Seq(JobKeys) /\ none \in Seq(Change)
      /\ \A x : x \in DOMAIN none => FALSE
  BY EmptySeq
<1>2. /\ identity = UNAVAILABLE /\ store = [k \in Keys |-> None] /\ sync = "off"
      /\ projection = [event |-> None, entries |-> none, status |-> "idle"]
      /\ verified = {} /\ running = {} /\ waiting = none
      /\ queue = none /\ mutating = None /\ requests = 0 /\ reviewed = None
      /\ launches = {} /\ released = None
  BY DEF Init, EMPTY
<1>3. StoreOK
  BY <1>2 DEF StoreOK, MaybeList, Identities
<1>4. JobsOK
  <2>1. IsFiniteSet(running) /\ Cardinality(running) <= MaxJobs
    BY <1>2, FS_EmptySet, ConstantsAssumption
  <2>2. Range(waiting) = {} /\ Distinct(waiting) /\ waiting \in Seq(JobKeys)
    <3> HIDE DEF none
    <3>1. QED
      BY <1>1, <1>2 DEF Range, Distinct
  <2>3. QED
    BY <1>2, <2>1, <2>2 DEF JobsOK
<1>5. ProjectionOK
  <2>1. projection.event = None /\ projection.entries = <<>>
    BY <1>2
  <2> HIDE DEF none
  <2>2. projection \in [ event : MaybeList, entries : Seq(Card),
                         status : {"idle", "refreshing", "ready", "stale", "error"} ]
    BY <1>1, <1>2 DEF MaybeList
  <2>3. QED
    BY <2>1, <2>2 DEF ProjectionOK, ProjectionIsOwn
<1>6. Range(projection.entries) = {}
  <2> HIDE DEF none
  <2>1. QED
    BY <1>1, <1>2 DEF Range
<1>7. CardsOK
  BY <1>2, <1>4, <1>5, <1>6 DEF CardsOK, PendingHasJob, ReadyHasArtifact
<1>8. ChangesOK
  <2> HIDE DEF none
  <2>1. QED
    BY <1>1, <1>2, ConstantsAssumption DEF ChangesOK, MutationOK, MaybeList
<1>9. LaunchesOK /\ ReleasedIsAccepted
  BY <1>2 DEF LaunchesOK, ReleasedIsAccepted
<1>10. QED
  BY <1>3, <1>7, <1>8, <1>9 DEF CatalogInv

LEMMA StutterHolds ==
  ASSUME CatalogInv, UNCHANGED vars PROVE CatalogInv'
<1>1. UNCHANGED <<identity, store, projection, verified, running, waiting, sync, queue,
                  mutating, requests, reviewed, launches, released>>
  BY DEF vars, shown, jobs, changes
<1>2. StoreOK'
  BY <1>1 DEF CatalogInv, StoreOK
<1>3. CardsOK'
  BY <1>1 DEF CatalogInv, CardsOK, ProjectionOK, ProjectionIsOwn, PendingHasJob,
              ReadyHasArtifact, JobsOK, Distinct
<1>4. ChangesOK'
  BY <1>1 DEF CatalogInv, ChangesOK, MutationOK
<1>5. LaunchesOK' /\ ReleasedIsAccepted'
  BY <1>1 DEF CatalogInv, LaunchesOK, ReleasedIsAccepted, CurrentCatalogEvent
<1>6. QED
  BY <1>2, <1>3, <1>4, <1>5 DEF CatalogInv

\* What a relay delivers is a list.
LEMMA RelayListIsList ==
  ASSUME NEW k \in Keys, NEW at \in 1..MaxTime, NEW s \in RelayLists
  PROVE  LET event == [pubkey |-> k, at |-> at, entries |-> s]
         IN  event \in ListEvent /\ IsList(event.entries)
<1>1. IsList(s)
  BY ConstantsAssumption
<1>2. s \in Seq(Entry)
  BY <1>1 DEF IsList
<1>3. QED
  BY <1>1, <1>2 DEF ListEvent

\* Every step keeps the invariant, and clears the list shown only for another
\* account.
LEMMA NextHolds ==
  ASSUME CatalogInv, Next
  PROVE  /\ CatalogInv'
         /\ projection.event # None /\ projection'.event = None =>
              identity'.pubkey # identity.pubkey
<1>1. CASE \E i \in Identities : SourcesEmit(i)
  BY <1>1, SourcesEmitKeeps
<1>2. CASE Reconnect
  BY <1>2, ReconnectKeeps
<1>3. CASE \E k \in Keys, at \in 1..MaxTime, s \in RelayLists :
             RelayDelivers([pubkey |-> k, at |-> at, entries |-> s])
  <2>1. PICK k \in Keys, at \in 1..MaxTime, s \in RelayLists :
          RelayDelivers([pubkey |-> k, at |-> at, entries |-> s])
    BY <1>3
  <2> DEFINE event == [pubkey |-> k, at |-> at, entries |-> s]
  <2>2. event \in ListEvent /\ IsList(event.entries)
    BY RelayListIsList
  <2>3. RelayDelivers(event)
    BY <2>1
  <2> HIDE DEF event
  <2>4. QED
    BY <2>2, <2>3, RelayDeliversKeeps
<1>4. CASE \E how \in {"complete", "error"} : SyncEnds(how)
  BY <1>4, SyncEndsKeeps
<1>5. CASE \E k \in running, ok \in BOOLEAN : JobEnds(k, ok)
  BY <1>5, JobEndsKeepsAll
<1>6. CASE Project \/ Retry
  BY <1>6, ReadKeeps
<1>7. CASE PreviewInstall
  <2>1. UNCHANGED projection
    BY <1>7 DEF PreviewInstall, shown
  <2>2. QED
    BY <1>7, <2>1, PreviewInstallKeeps
<1>8. CASE \E op \in {"approve", "uninstall"}, entry \in Entry : Request(op, entry)
  <2>1. PICK op \in {"approve", "uninstall"}, entry \in Entry : Request(op, entry)
    BY <1>8
  <2>2. UNCHANGED projection
    BY <2>1 DEF Request, shown
  <2>3. QED
    BY <2>1, <2>2, RequestKeeps
<1>9. CASE StartMutation
  <2>1. UNCHANGED projection
    BY <1>9 DEF StartMutation, shown
  <2>2. QED
    BY <1>9, <2>1, StartMutationKeeps
<1>10. CASE MutationFails
  <2>1. UNCHANGED projection
    BY <1>10 DEF MutationFails, QuietStep, shown
  <2>2. QED
    BY <1>10, <2>1, MutationFailsKeeps
<1>11. CASE UpdateAnswered
  <2>1. UNCHANGED projection
    BY <1>11 DEF UpdateAnswered, QuietStep, shown
  <2>2. QED
    BY <1>11, <2>1, UpdateAnsweredKeeps
<1>12. CASE SignatureAnswered
  <2>1. UNCHANGED projection
    BY <1>12 DEF SignatureAnswered, QuietStep, shown
  <2>2. QED
    BY <1>12, <2>1, SignatureAnsweredKeeps
<1>13. CASE PublishAnswered
  BY <1>13, PublishAnsweredKeeps
<1>14. CASE \E entry \in Entry : Launch(entry)
  <2>1. PICK entry \in Entry : Launch(entry)
    BY <1>14
  <2>2. UNCHANGED projection
    BY <2>1 DEF Launch, shown
  <2>3. QED
    BY <2>1, <2>2, LaunchKeeps
<1>15. CASE \E l \in launches, ok \in BOOLEAN : LaunchAnswered(l, ok)
  <2>1. PICK l \in launches, ok \in BOOLEAN : LaunchAnswered(l, ok)
    BY <1>15
  <2>2. UNCHANGED projection
    BY <2>1 DEF LaunchAnswered, shown
  <2>3. QED
    BY <2>1, <2>2, LaunchAnsweredKeeps
<1>16. QED
  BY <1>1, <1>2, <1>3, <1>4, <1>5, <1>6, <1>7, <1>8, <1>9, <1>10, <1>11, <1>12,
     <1>13, <1>14, <1>15 DEF Next

LEMMA CatalogInvHolds == Spec => []CatalogInv
<1>1. Init => CatalogInv
  BY InitHolds
<1>2. CatalogInv /\ [Next]_vars => CatalogInv'
  BY NextHolds, StutterHolds
<1>3. QED
  BY <1>1, <1>2, PTL DEF Spec

\* The type invariant: what the store, the cards, the jobs, the changes and the
\* launches hold is of its kind, and every stored list names a napplet once
\* (parseContent, CatalogService in src/runtime/catalog.ts).
THEOREM TypesAreKept == Spec => []TypeOK
<1>1. CatalogInv => TypeOK
  <2>1. SUFFICES ASSUME CatalogInv PROVE TypeOK
    OBVIOUS
  <2>2. /\ identity \in Identities /\ sync \in {"off", "open", "complete", "error"}
        /\ \A k \in Keys : store[k] # None => /\ store[k] \in ListEvent
                                              /\ store[k].pubkey = k
                                              /\ IsList(store[k].entries)
    BY <2>1 DEF CatalogInv, StoreOK, MaybeList
  <2>3. /\ projection.event \in ListEvent \cup {None}
        /\ projection.entries \in Seq(Card)
        /\ projection.status \in {"idle", "refreshing", "ready", "stale", "error"}
    BY <2>1 DEF CatalogInv, CardsOK, ProjectionOK, MaybeList
  <2>4. \A k \in verified \cup running \cup Range(waiting) : k \in JobKeys
    <3>1. waiting \in Seq(JobKeys) /\ verified \cup running \subseteq JobKeys
      BY <2>1 DEF CatalogInv, CardsOK, JobsOK
    <3>2. Range(waiting) \subseteq JobKeys
      BY <3>1, RangeOfSeq
    <3>3. QED
      BY <3>1, <3>2
  <2>5. /\ queue \in Seq(Change) /\ requests \in 0..MaxRequests
        /\ reviewed \in ListEvent \cup {None}
        /\ mutating # None =>
             mutating \in [ change : Change, identity : Identities,
                            base : ListEvent \cup {None}, event : ListEvent \cup {None},
                            awaits : {"update", "signature", "publish"} ]
    BY <2>1 DEF CatalogInv, ChangesOK, MutationOK, MaybeList
  <2>6. /\ launches \subseteq [identity : Identities, event : ListEvent, entry : Entry]
        /\ released \in launches \cup {None} \/ released.event \in ListEvent
    BY <2>1 DEF CatalogInv, LaunchesOK
  <2>7. QED
    BY <2>2, <2>3, <2>4, <2>5, <2>6 DEF TypeOK, Card, JobKeys
<1>2. QED
  BY <1>1, CatalogInvHolds, PTL

\* The cards the tabs see are of the account signed in, a ready one has its
\* artifact at hand and a pending one a job, of which there is one whoever asks
\* and MaxJobs that run (#refresh, #enqueue, #drain, #applyEnrichment).
THEOREM CardsAreAlwaysServed == Spec => []CardsAreServed
<1>1. CatalogInv => CardsAreServed
  BY DEF CatalogInv, CardsOK, ProjectionOK, JobsOK, Distinct, CardsAreServed, JobsAreShared
<1>2. QED
  BY <1>1, CatalogInvHolds, PTL

\* An artifact is released only to the account that asked, for an entry its
\* newest list accepts at that moment (the second half of launch).
THEOREM ReleasesAreAccepted == Spec => []ReleasedIsAccepted
<1>1. CatalogInv => ReleasedIsAccepted
  BY DEF CatalogInv
<1>2. QED
  BY <1>1, CatalogInvHolds, PTL

\* What a step of #mutate that stores a list does.
LEMMA StoresPublishes ==
  ASSUME CatalogInv, Next, Stores
  PROVE  /\ PublishAnswered
         /\ mutating.event.pubkey \in Keys
         /\ store'[mutating.event.pubkey] = mutating.event
         /\ store[mutating.event.pubkey] # None =>
              mutating.event.at > store[mutating.event.pubkey].at
<1>1. mutating # None /\ mutating' = None /\ store' # store
  BY DEF Stores
<1>2. PublishAnswered
  BY <1>1, Zenon DEF Next, SourcesEmit, Reconnect, RelayDelivers, SyncEnds, JobEnds, Project,
     Retry, PreviewInstall, Request, StartMutation, MutationFails, UpdateAnswered,
     SignatureAnswered, QuietStep, Launch, LaunchAnswered, changes
<1> DEFINE event == mutating.event
           k == event.pubkey
<1>3. event \in ListEvent /\ k \in Keys
  BY <1>2, PublishIsOwn DEF ListEvent
<1>4. store' = [store EXCEPT ![k] = Kept(event)]
  BY <1>2 DEF PublishAnswered
<1> HIDE DEF event
<1>5. store \in [Keys -> MaybeList]
  BY DEF CatalogInv, StoreOK
<1>6. Kept(event) # store[k]
  BY <1>1, <1>3, <1>4, <1>5
<1>7. Kept(event) = IF store[k] # None /\ store[k].at >= event.at THEN store[k] ELSE event
  BY DEF Kept
<1>8. Kept(event) = event /\ ~(store[k] # None /\ store[k].at >= event.at)
  BY <1>6, <1>7
<1>9. store'[k] = event
  BY <1>3, <1>4, <1>5, <1>8
<1>10. store[k] # None => event.at > store[k].at
  <2>1. event.at \in Int
    BY <1>3 DEF ListEvent
  <2>2. store[k] # None => store[k].at \in Int
    BY <1>3, <1>5 DEF MaybeList, ListEvent
  <2>3. QED
    BY <1>8, <2>1, <2>2
<1>11. QED
  BY <1>2, <1>3, <1>9, <1>10 DEF event

\* A change is made to the list it replaces and that list is the newest one the
\* store has: nothing stored during the awaits is lost (#mutate,
\* #assertMutationAuthority).
THEOREM UpdatesAreNotLost == Spec => NoLostUpdate
<1>1. ASSUME CatalogInv, Next, Stores
      PROVE  LET k == mutating.event.pubkey
             IN  /\ store'[k].entries = Edited(mutating.change, EntriesOf(store[k]))
                 /\ store[k] # None => store'[k].at > store[k].at
  BY <1>1, StoresPublishes, PublishIsOwn
<1>2. ASSUME CatalogInv, [Next]_vars
      PROVE  [ Stores =>
                 LET k == mutating.event.pubkey
                 IN  /\ store'[k].entries = Edited(mutating.change, EntriesOf(store[k]))
                     /\ store[k] # None => store'[k].at > store[k].at ]_vars
  BY <1>1, <1>2
<1>3. QED
  BY <1>2, CatalogInvHolds, PTL DEF Spec, NoLostUpdate

\* An approval changes the list the user reviewed and no other, however long it
\* waited (approveManifestUpdate, #mutate).
THEOREM ApprovalsAreAsReviewed == Spec => ApprovedAsReviewed
<1>1. ASSUME CatalogInv, Next, Stores, mutating.change.op = "approve"
      PROVE  mutating.change.source = store[mutating.event.pubkey]
  BY <1>1, StoresPublishes, PublishIsOwn
<1>2. ASSUME CatalogInv, [Next]_vars
      PROVE  [ Stores /\ mutating.change.op = "approve" =>
                 mutating.change.source = store[mutating.event.pubkey] ]_vars
  BY <1>1, <1>2
<1>3. QED
  BY <1>2, CatalogInvHolds, PTL DEF Spec, ApprovedAsReviewed

\* The list shown is cleared for another account only: relay errors, reconnects
\* and refreshes keep it (CatalogSyncOwner.#replace, #refresh).
THEOREM TruthIsRetained == Spec => TruthRetained
<1>1. ASSUME CatalogInv, [Next]_vars
      PROVE  [ projection.event # None /\ projection'.event = None =>
                 identity'.pubkey # identity.pubkey ]_vars
  BY <1>1, NextHolds
<1>2. QED
  BY <1>1, CatalogInvHolds, PTL DEF Spec, TruthRetained

===============================================================================
