--------------------------- MODULE LibraryProofs ---------------------------
(***************************************************************************)
(* What holds of the library for command lines, names, tags, tables and    *)
(* memories of any length.                                                 *)
(*                                                                         *)
(* Induction over data is by LeastNat: of the indices for which a formula  *)
(* fails, if there are any, one is the least.                              *)
(***************************************************************************)
EXTENDS Library, FiniteSetTheorems, WellFoundedInduction, SequenceTheorems, TLAPS

-----------------------------------------------------------------------------
\* Numbers

LEMMA LeastNat ==
  ASSUME NEW T \in SUBSET Nat, T # {}
  PROVE  \E m \in T : \A k \in T : m <= k
<1>1. IsWellFoundedOn(OpToRel(<, Nat), Nat)
  BY NatLessThanWellFounded
<1>2. PICK R : R = OpToRel(<, Nat)
  OBVIOUS
<1>3. PICK m \in T : \A k \in T : <<k, m>> \notin R
  BY <1>1, <1>2, WFMin, Zenon
<1>4. \A k \in T : ~ (k < m)
  BY <1>2, <1>3 DEF OpToRel
<1>. QED BY <1>3, <1>4

\* The greatest, by the least distance from a bound.
LEMMA GreatestNat ==
  ASSUME NEW T \in SUBSET Nat, T # {}, NEW n \in Nat, \A k \in T : k <= n
  PROVE  \E m \in T : \A k \in T : k <= m
<1>. DEFINE D == {e \in 0 .. n : n - e \in T}
<1>1. D \in SUBSET Nat /\ D # {}
  <2>1. PICK k : k \in T
    OBVIOUS
  <2>2. n - k \in 0 .. n /\ n - (n - k) = k
    BY <2>1
  <2>3. n - k \in D
    BY <2>1, <2>2, Zenon
  <2>4. D \subseteq Nat
    OBVIOUS
  <2>. QED BY <2>3, <2>4, Zenon
<1>2. PICK d \in D : \A e \in D : d <= e
  <2>. HIDE DEF D
  <2>. QED BY <1>1, LeastNat
<1>3. PICK m \in T : d = n - m
  <2>1. n - d \in T /\ d \in 0 .. n /\ d = n - (n - d)
    BY <1>2
  <2>. QED BY <2>1
<1>4. \A k \in T : n - k \in D
  <2>1. \A k \in T : n - k \in 0 .. n /\ n - (n - k) = k
    OBVIOUS
  <2>. QED BY <2>1
<1>5. \A k \in T : n - m <= n - k
  BY <1>2, <1>3, <1>4
<1>. QED BY <1>3, <1>5

LEMMA MinIs ==
  ASSUME NEW T \in SUBSET Nat, T # {}
  PROVE  /\ Min(T) \in T /\ \A k \in T : Min(T) <= k
         /\ P!Min(T) = Min(T) /\ W!Min(T) = Min(T)
<1>1. \E m \in T : \A k \in T : m <= k
  BY LeastNat
<1>2. Min(T) \in T /\ \A k \in T : Min(T) <= k
  BY <1>1, Zenon DEF Min
<1>3. P!Min(T) = Min(T) /\ W!Min(T) = Min(T)
  BY Zenon DEF Min, P!Min, W!Min
<1>. QED BY <1>2, <1>3

LEMMA MaxIs ==
  ASSUME NEW T \in SUBSET Nat, T # {}, NEW n \in Nat, \A k \in T : k <= n
  PROVE  P!Max(T) \in T /\ \A k \in T : k <= P!Max(T)
<1>1. \E m \in T : \A k \in T : k <= m
  BY GreatestNat
<1>2. \E m \in T : \A k \in T : m >= k
  BY <1>1
<1>3. P!Max(T) \in T /\ \A k \in T : P!Max(T) >= k
  BY <1>2, Zenon DEF P!Max
<1>. QED BY <1>3

-----------------------------------------------------------------------------
\* The command line

\* A text is its characters, then zeros.
LEMMA TextFacts ==
  ASSUME NEW s, P!Without(s, {Zero})
  PROVE  /\ Len(s) \in Nat
         /\ \A k \in 1 .. Len(s) : P!At(s, k) = s[k] /\ s[k] # Zero
         /\ \A k \in Nat : k > Len(s) => P!At(s, k) = Zero
BY DEF P!Without, P!At

LEMMA NameFacts ==
  ASSUME P!ScanInv
  PROVE  /\ P!NameLen = Len(name) /\ P!NameLen \in Nat
         /\ \A k \in 1 .. P!NameLen : name[k] \notin {Zero, P!Space, P!Equals}
BY DEF P!ScanInv, P!Without, P!NameLen

\* The line holds a name it matches up to the name's end.
LEMMA MatchInLine ==
  ASSUME P!ScanInv, NEW b \in 1 .. Len(cmdline), P!Matches(b), P!NameLen > 0
  PROVE  /\ b + P!NameLen - 1 <= Len(cmdline)
         /\ \A k \in 1 .. P!NameLen : cmdline[b + k - 1] = name[k]
<1>. DEFINE n == P!NameLen
<1>1. n \in Nat /\ \A k \in 1 .. n : name[k] # Zero
  BY NameFacts
<1>2. \A k \in 1 .. n : P!At(cmdline, b + k - 1) = name[k]
  BY DEF P!Matches
<1>3. /\ Len(cmdline) \in Nat
      /\ \A k \in 1 .. Len(cmdline) : P!At(cmdline, k) = cmdline[k]
      /\ \A k \in Nat : k > Len(cmdline) => P!At(cmdline, k) = Zero
  BY TextFacts DEF P!ScanInv
<1>. HIDE DEF n
<1>4. \A k \in 1 .. n : b + k - 1 <= Len(cmdline)
  BY <1>1, <1>2, <1>3, SMTT(30)
<1>. QED BY <1>1, <1>2, <1>3, <1>4, SMTT(30) DEF n

\* A comparison reads no further than the zero: it ends at the first byte that differs.
LEMMA ComparedInLine ==
  ASSUME P!ScanInv, NEW b \in 1 .. Len(cmdline), P!NameLen > 0
  PROVE  P!Compared(b) \in 1 .. Len(cmdline) + 1
<1>. DEFINE n == P!NameLen
            D == {k \in 1 .. n : P!At(cmdline, b + k - 1) # name[k]}
<1>1. n \in Nat /\ n > 0 /\ \A k \in 1 .. n : name[k] # Zero
  BY NameFacts
<1>2. Len(cmdline) \in Nat /\ \A k \in Nat : k > Len(cmdline) => P!At(cmdline, k) = Zero
  BY TextFacts DEF P!ScanInv
<1>3. CASE P!Matches(b)
  BY <1>1, <1>2, <1>3, MatchInLine DEF P!Compared
<1>4. CASE ~P!Matches(b)
  <2>1. D \in SUBSET Nat /\ D # {}
    BY <1>1, <1>4 DEF P!Matches
  <2>2. PICK d : d = P!Min(D)
    OBVIOUS
  <2>3. d \in D /\ \A k \in D : d <= k
    <3>. HIDE DEF D
    <3>. QED BY <2>1, <2>2, MinIs
  <2>4. P!Compared(b) = b - 1 + d
    BY <1>4, <2>2 DEF P!Compared
  <2>. HIDE DEF n
  <2>5. CASE d = 1
    BY <1>2, <2>4, <2>5
  <2>6. CASE d # 1
    <3>1. d - 1 \in 1 .. n /\ d - 1 \notin D
      BY <1>1, <2>3, <2>6
    <3>2. P!At(cmdline, b + (d - 1) - 1) # Zero
      BY <1>1, <3>1
    <3>3. b + (d - 1) - 1 <= Len(cmdline)
      BY <1>1, <1>2, <3>1, <3>2
    <3>. QED BY <1>1, <1>2, <2>3, <2>4, <3>3
  <2>. QED BY <2>5, <2>6
<1>. QED BY <1>3, <1>4

\* No step of the scan leaves the line, or reads past its zero.
LEMMA ScanReads ==
  ASSUME P!ScanInv, P!Next
  PROVE  p' \in 1 .. Len(cmdline) + 1 /\ farthest' \in 1 .. Len(cmdline) + 1
<1>. DEFINE L == Len(cmdline)
            n == P!NameLen
<1>1. /\ L \in Nat /\ p \in 1 .. L + 1 /\ farthest \in 1 .. L + 1
      /\ \A k \in 1 .. L : P!At(cmdline, k) = cmdline[k] /\ cmdline[k] # Zero
      /\ \A k \in Nat : k > L => P!At(cmdline, k) = Zero
  BY TextFacts DEF P!ScanInv
<1>2. n \in Nat /\ \A k \in 1 .. n : name[k] \notin {Zero, P!Space, P!Equals}
  BY NameFacts
<1>3. ASSUME NEW r \in 1 .. L + 1, P!Read(r)
      PROVE  farthest' \in 1 .. L + 1
  <2>1. {farthest, r} \in SUBSET Nat /\ \A k \in {farthest, r} : k <= L + 1
    BY <1>1, <1>3
  <2>2. P!Max({farthest, r}) \in {farthest, r}
    <3>1. L + 1 \in Nat /\ {farthest, r} # {}
      BY <1>1
    <3>. QED BY <2>1, <3>1, MaxIs
  <2>. QED BY <1>1, <1>3, <2>2 DEF P!Read
<1>4. ASSUME NEW a \in 1 .. L + 1, NEW b \in 1 .. L + 1
      PROVE  P!Max({a, b}) \in 1 .. L + 1
  <2>1. {a, b} \in SUBSET Nat /\ \A k \in {a, b} : k <= L + 1
    BY <1>1, <1>4
  <2>2. P!Max({a, b}) \in {a, b}
    <3>1. L + 1 \in Nat /\ {a, b} # {}
      BY <1>1
    <3>. QED BY <2>1, <3>1, MaxIs
  <2>. QED BY <1>1, <1>4, <2>2
<1>. HIDE DEF L, n
<1>5. ASSUME P!Scanning("get") \/ P!Scanning("has") PROVE n > 0 /\ p \in 1 .. L
  BY <1>1, <1>5 DEF P!Scanning, n
<1>6. CASE P!End
  BY <1>1, <1>6 DEF P!End, P!Return, L
<1>7. CASE P!NoMatchHere
  <2>1. n > 0 /\ p \in 1 .. L
    BY <1>5, <1>7 DEF P!NoMatchHere
  <2>2. P!Compared(p) \in 1 .. L + 1 /\ p + 1 \in 1 .. L + 1
    BY <1>1, <2>1, ComparedInLine DEF L, n
  <2>3. P!Max({p + 1, P!Compared(p)}) \in 1 .. L + 1
    BY <1>4, <2>2
  <2>. QED BY <1>3, <1>7, <2>2, <2>3 DEF P!NoMatchHere, L
<1>8. CASE P!MatchWithValue
  <2>1. n > 0 /\ p \in 1 .. L /\ P!Matches(p) /\ P!At(cmdline, p + n) = P!Equals
    BY <1>5, <1>8 DEF P!MatchWithValue, n
  <2>2. p + n - 1 <= L
    BY <2>1, MatchInLine DEF L, n
  <2>3. p + n <= L
    <3>1. P!Equals # Zero
      BY LibraryAssumption DEF P!ParamsAssumption
    <3>. QED BY <1>1, <1>2, <2>1, <3>1
  <2>4. P!ValueEnd(p + n + 1) \in 1 .. L + 1
    <3>. DEFINE V == {k \in p + n + 1 .. L + 1 : P!At(cmdline, k) \in {P!Space, Zero}}
    <3>1. V \in SUBSET Nat /\ L + 1 \in V
      BY <1>1, <1>2, <2>1, <2>3
    <3>2. P!Min(V) \in V
      <4>. HIDE DEF V
      <4>. QED BY <3>1, MinIs
    <3>. QED BY <1>1, <1>2, <2>1, <3>2 DEF P!ValueEnd, L
  <2>5. p' = p /\ P!Read(P!ValueEnd(p + n + 1))
    BY <1>8 DEF P!MatchWithValue, P!Return, n
  <2>. QED BY <1>1, <1>3, <2>4, <2>5 DEF L
<1>9. CASE P!MatchAlone
  <2>1. n > 0 /\ p \in 1 .. L /\ P!Matches(p)
    BY <1>5, <1>9 DEF P!MatchAlone
  <2>2. p + n \in 1 .. L + 1
    <3>1. p + n - 1 <= L
      BY <2>1, MatchInLine DEF L, n
    <3>. QED BY <1>1, <1>2, <2>1, <3>1
  <2>3. p' = p /\ P!Read(p + n)
    BY <1>9 DEF P!MatchAlone, P!Return, n
  <2>. QED BY <1>1, <1>3, <2>2, <2>3 DEF L
<1>10. ASSUME NEW l \in 1 .. L, p <= l, n > 0 PROVE P!Searched(p, l) \in 1 .. L + 1
  <2>. DEFINE C == {P!Compared(k) : k \in p .. l} \cup {l}
  <2>1. \A k \in p .. l : P!Compared(k) \in 1 .. L + 1
    <3>1. ASSUME NEW k \in p .. l PROVE P!Compared(k) \in 1 .. L + 1
      <4>1. k \in 1 .. L
        BY <1>1, <1>10
      <4>. QED BY <1>10, <4>1, ComparedInLine DEF L, n
    <3>. QED BY <3>1
  <2>2. C \in SUBSET Nat /\ C # {} /\ \A k \in C : k \in 1 .. L + 1
    BY <1>1, <2>1
  <2>3. P!Max(C) \in C
    <3>1. L + 1 \in Nat /\ \A k \in C : k <= L + 1
      BY <1>1, <2>2
    <3>. HIDE DEF C
    <3>. QED BY <2>2, <3>1, MaxIs
  <2>. QED BY <2>2, <2>3 DEF P!Searched
<1>11. CASE P!NotFound
  <2>1. n > 0 /\ p \in 1 .. L
    BY <1>5, <1>11 DEF P!NotFound
  <2>2. P!Searched(p, L) \in 1 .. L + 1 /\ L + 1 \in 1 .. L + 1
    BY <1>1, <1>10, <2>1
  <2>3. P!Max({P!Searched(p, L), L + 1}) \in 1 .. L + 1
    BY <1>4, <2>2
  <2>4. p' = p /\ P!Read(P!Max({P!Searched(p, L), L + 1}))
    BY <1>11 DEF P!NotFound, P!Return, L
  <2>. QED BY <1>1, <1>3, <2>3, <2>4 DEF L
<1>12. ASSUME n > 0, p \in 1 .. L, P!Occurrences(p) # {}
       PROVE  /\ P!StrStr(p) \in p .. L
              /\ P!Searched(p, P!StrStr(p)) \in 1 .. L + 1
              /\ P!StrStr(p) + n \in 1 .. L + 1
  <2>1. P!Occurrences(p) \in SUBSET Nat /\ P!Occurrences(p) \subseteq p .. L
    BY <1>1, <1>12 DEF P!Occurrences, L
  <2>2. P!StrStr(p) \in P!Occurrences(p)
    BY <1>12, <2>1, MinIs DEF P!StrStr
  <2>3. P!StrStr(p) \in p .. L /\ P!Matches(P!StrStr(p))
    BY <2>1, <2>2 DEF P!Occurrences
  <2>4. P!StrStr(p) \in 1 .. L
    BY <1>1, <1>12, <2>3
  <2>5. P!StrStr(p) + n - 1 <= L
    BY <1>12, <2>3, <2>4, MatchInLine DEF L, n
  <2>6. P!StrStr(p) + n \in 1 .. L + 1
    BY <1>1, <1>2, <2>4, <2>5
  <2>7. P!Searched(p, P!StrStr(p)) \in 1 .. L + 1
    BY <1>10, <1>12, <2>3, <2>4
  <2>. QED BY <2>3, <2>6, <2>7
<1>13. CASE P!FoundParam
  <2>1. n > 0 /\ p \in 1 .. L /\ P!Occurrences(p) # {}
    BY <1>5, <1>13 DEF P!FoundParam
  <2>2. P!Max({P!Searched(p, P!StrStr(p)), P!StrStr(p) + n}) \in 1 .. L + 1
    BY <1>4, <1>12, <2>1
  <2>3. p' = p /\ P!Read(P!Max({P!Searched(p, P!StrStr(p)), P!StrStr(p) + n}))
    BY <1>13 DEF P!FoundParam, P!Return, n
  <2>. QED BY <1>1, <1>3, <2>2, <2>3 DEF L
<1>14. CASE P!FoundInWord
  <2>1. n > 0 /\ p \in 1 .. L /\ P!Occurrences(p) # {}
    BY <1>5, <1>14 DEF P!FoundInWord
  <2>2. P!After(P!StrStr(p)) = P!StrStr(p) + n
    BY DEF P!After, n
  <2>3. P!Max({P!Searched(p, P!StrStr(p)), P!After(P!StrStr(p))}) \in 1 .. L + 1
    BY <1>4, <1>12, <2>1, <2>2
  <2>4. p' = P!After(P!StrStr(p)) /\ P!Read(P!Max({P!Searched(p, P!StrStr(p)), P!After(P!StrStr(p))}))
    BY <1>14 DEF P!FoundInWord
  <2>. QED BY <1>3, <1>12, <2>1, <2>2, <2>3, <2>4 DEF L
<1>. QED BY <1>6, <1>7, <1>8, <1>9, <1>11, <1>13, <1>14 DEF P!Next, L

\* The texts and the function stay.
LEMMA ScanStays ==
  ASSUME P!Next
  PROVE  fn' = fn /\ cmdline' = cmdline /\ name' = name
BY DEF P!Next, P!End, P!NoMatchHere, P!MatchWithValue, P!MatchAlone, P!NotFound, P!FoundParam,
       P!FoundInWord, P!Return

LEMMA ScanInvStep ==
  ASSUME P!ScanInv, P!Next
  PROVE  P!ScanInv'
<1>1. fn' = fn /\ cmdline' = cmdline /\ name' = name
  BY ScanStays
<1>2. /\ \A k : P!Matches(k)' <=> P!Matches(k)
      /\ P!Plain' <=> P!Plain
  BY <1>1 DEF P!Matches, P!Plain, P!NameLen, P!At, P!Occurrences, P!WordStarts, P!KeyIs
<1>3. p' \in 1 .. Len(cmdline) + 1 /\ farthest' \in 1 .. Len(cmdline) + 1
  BY ScanReads
<1>4. Len(cmdline) \in Nat /\ p \in 1 .. Len(cmdline) + 1
  BY TextFacts DEF P!ScanInv
<1>5. fn = "get" => \A k \in 1 .. p' - 1 : ~P!Matches(k)
  <2>1. CASE P!NoMatchHere
    BY <1>4, <2>1 DEF P!ScanInv, P!NoMatchHere
  <2>2. CASE ~P!NoMatchHere
    <3>1. fn = "get" => p' = p
      BY <2>2 DEF P!Next, P!End, P!MatchWithValue, P!MatchAlone, P!NotFound, P!FoundParam,
                  P!FoundInWord, P!Return, P!Scanning, P!Running
    <3>. QED BY <3>1 DEF P!ScanInv
  <2>. QED BY <2>1, <2>2
<1>6. fn = "has" /\ p' > 1 => ~P!Plain
  <2>1. CASE P!FoundInWord
    <3>1. P!StrStr(p) \in P!Occurrences(p)
      <4>1. P!Occurrences(p) \in SUBSET Nat /\ P!Occurrences(p) # {}
        BY <1>4, <2>1 DEF P!FoundInWord, P!Occurrences
      <4>. QED BY <4>1, MinIs DEF P!StrStr
    <3>2. P!StrStr(p) \in P!Occurrences(1)
      BY <1>4, <3>1 DEF P!Occurrences
    <3>3. ~P!KeyIs(P!StrStr(p))
      BY <2>1 DEF P!FoundInWord, P!KeyIs, P!Ends
    <3>. QED BY <3>2, <3>3 DEF P!Plain
  <2>2. CASE ~P!FoundInWord
    <3>1. fn = "has" => p' = p
      BY <2>2 DEF P!Next, P!End, P!NoMatchHere, P!MatchWithValue, P!MatchAlone, P!NotFound,
                  P!FoundParam, P!Return, P!Scanning, P!Running
    <3>. QED BY <3>1 DEF P!ScanInv
  <2>. QED BY <2>1, <2>2
<1>7. fn \in {"get", "has"}
  <2>1. result = P!None
    BY DEF P!Next, P!End, P!NoMatchHere, P!MatchWithValue, P!MatchAlone, P!NotFound,
           P!FoundParam, P!FoundInWord, P!Scanning, P!Running
  <2>. QED BY <2>1 DEF P!ScanInv
<1>8. /\ P!Without(cmdline', {Zero}) /\ P!Without(name', {Zero, P!Space, P!Equals})
  BY <1>1 DEF P!ScanInv
<1>9. /\ fn' = "get" => \A k \in 1 .. p' - 1 : ~P!Matches(k)'
      /\ fn' = "has" /\ p' > 1 => ~P!Plain'
      /\ fn' \notin {"get", "has"} => result' # P!None
  BY <1>1, <1>2, <1>5, <1>6, <1>7
<1>10. p' \in 1 .. Len(cmdline') + 1 /\ farthest' \in 1 .. Len(cmdline') + 1
  BY <1>1, <1>3
<1>. QED BY <1>8, <1>9, <1>10 DEF P!ScanInv

\* The words that have the name as their key, and what a call's result has to say of them.
Keys == {w \in P!WordStarts : P!KeyIs(w)}

Answers(r) ==
  CASE r.kind = "flag" -> r.b = (Keys # {})
    [] r.kind = "null" -> Keys = {} \/ P!Word(P!Min(Keys)) = name
    [] r.kind = "value" ->
         Keys # {} /\ P!Word(P!Min(Keys)) = name \o <<P!Equals>> \o r.v
    [] OTHER -> TRUE

LEMMA KeysFacts ==
  ASSUME P!ScanInv
  PROVE  /\ Keys \in SUBSET Nat /\ Keys \subseteq 1 .. Len(cmdline)
         /\ \A w \in Keys : P!Matches(w)
  BY TextFacts DEF P!ScanInv, Keys, P!WordStarts, P!KeyIs

\* A match in such a line, with none before it, is the first of its keys.
LEMMA MatchIsKey ==
  ASSUME P!ScanInv, P!Plain, fn = "get", NEW b \in 1 .. Len(cmdline), b = p, P!Matches(b)
  PROVE  /\ b \in Keys /\ P!Min(Keys) = b /\ cmdline[b] # P!Space
         /\ P!At(cmdline, b + P!NameLen) \in {Zero, P!Space, P!Equals}
<1>1. Len(cmdline) \in Nat
  BY TextFacts DEF P!ScanInv
<1>2. b \in Keys /\ cmdline[b] # P!Space /\ P!At(cmdline, b + P!NameLen) \in {Zero, P!Space, P!Equals}
  BY <1>1 DEF P!Plain, P!Occurrences, Keys, P!KeyIs, P!WordStarts
<1>3. \A w \in Keys : w >= b
  BY <1>1, KeysFacts DEF P!ScanInv
<1>4. P!Min(Keys) \in Keys /\ \A w \in Keys : P!Min(Keys) <= w
  BY <1>2, KeysFacts, MinIs
<1>5. P!Min(Keys) = b
  <2>1. b \in Nat /\ P!Min(Keys) \in Nat
    BY <1>4, KeysFacts
  <2>2. P!Min(Keys) >= b /\ P!Min(Keys) <= b
    BY <1>2, <1>3, <1>4
  <2>. QED BY <2>1, <2>2
<1>. QED BY <1>2, <1>5

\* A word ends before the first space after its beginning, or with the line.
LEMMA WordIs ==
  ASSUME P!ScanInv, NEW b \in 1 .. Len(cmdline), NEW e \in b .. Len(cmdline),
         \A k \in b .. e : cmdline[k] # P!Space,
         e = Len(cmdline) \/ cmdline[e + 1] = P!Space
  PROVE  P!Word(b) = SubSeq(cmdline, b, e)
<1>. DEFINE E == {j \in b .. Len(cmdline) : \A k \in b .. j : cmdline[k] # P!Space}
<1>1. Len(cmdline) \in Nat
  BY TextFacts DEF P!ScanInv
<1>2. E \in SUBSET Nat /\ E # {} /\ e \in E /\ \A j \in E : j <= e
  BY <1>1
<1>3. P!Max(E) \in E /\ \A k \in E : k <= P!Max(E)
  <2>1. e \in Nat
    BY <1>1
  <2>. HIDE DEF E
  <2>. QED BY <1>2, <2>1, MaxIs
<1>4. P!Max(E) = e
  <2>1. e \in Nat /\ P!Max(E) \in Nat
    BY <1>1, <1>2, <1>3
  <2>2. P!Max(E) >= e /\ P!Max(E) <= e
    BY <1>2, <1>3
  <2>. HIDE DEF E
  <2>. QED BY <2>1, <2>2
<1>. QED BY <1>4 DEF P!Word

\* The name and what is after it.
LEMMA AfterName ==
  ASSUME P!ScanInv, NEW b \in 1 .. Len(cmdline), P!Matches(b), P!NameLen > 0
  PROVE  /\ \A k \in b .. b + P!NameLen - 1 : k <= Len(cmdline) /\ cmdline[k] \notin {Zero, P!Space, P!Equals}
         /\ \A e \in b + P!NameLen .. Len(cmdline) : cmdline[b + P!NameLen] = P!Equals =>
              SubSeq(cmdline, b, e) = name \o <<P!Equals>> \o SubSeq(cmdline, b + P!NameLen + 1, e)
         /\ SubSeq(cmdline, b, b + P!NameLen - 1) = name
<1>. DEFINE n == P!NameLen
            C == {cmdline[k] : k \in DOMAIN cmdline}
            N == {name[k] : k \in DOMAIN name}
            S == C \cup N \cup {P!Equals}
<1>1. /\ n \in Nat /\ n = Len(name) /\ name \in Seq(S)
      /\ \A k \in 1 .. n : name[k] \notin {Zero, P!Space, P!Equals}
  <2>1. name \in Seq(S)
    BY DEF P!ScanInv, P!Without
  <2>. QED BY <2>1, NameFacts
<1>2. Len(cmdline) \in Nat /\ cmdline \in Seq(S)
  <2>1. cmdline \in Seq(S)
    BY DEF P!ScanInv, P!Without
  <2>. QED BY <2>1, TextFacts DEF P!ScanInv
<1>3. b + n - 1 <= Len(cmdline) /\ \A k \in 1 .. n : cmdline[b + k - 1] = name[k]
  BY MatchInLine
<1>4. P!Equals \in S
  OBVIOUS
<1>. HIDE DEF n, S
<1>5. \A k \in b .. b + n - 1 : k <= Len(cmdline) /\ cmdline[k] \notin {Zero, P!Space, P!Equals}
  <2>1. ASSUME NEW k \in b .. b + n - 1 PROVE k <= Len(cmdline) /\ cmdline[k] \notin {Zero, P!Space, P!Equals}
    <3>1. k - b + 1 \in 1 .. n /\ b + (k - b + 1) - 1 = k
      BY <1>1
    <3>2. cmdline[k] = name[k - b + 1]
      BY <1>3, <3>1
    <3>. QED BY <1>1, <1>2, <1>3, <3>1, <3>2
  <2>. QED BY <2>1
<1>6. \A k \in 1 .. Len(cmdline) : cmdline[k] \in S
  BY <1>2
<1>7. ASSUME NEW e \in b + n .. Len(cmdline), cmdline[b + n] = P!Equals
      PROVE  SubSeq(cmdline, b, e) = name \o <<P!Equals>> \o SubSeq(cmdline, b + n + 1, e)
  <2>. DEFINE v == SubSeq(cmdline, b + n + 1, e)
              h == name \o <<P!Equals>>
              w == SubSeq(cmdline, b, e)
              m == e - (b + n)
  <2>0. m \in Nat /\ b \in Nat /\ e = b + n + m
    BY <1>1, <1>2
  <2>1. /\ v \in Seq(S) /\ Len(v) = e - (b + n)
        /\ \A k \in 1 .. e - (b + n) : v[k] = cmdline[b + n + k]
    <3>1. \A k \in b + n + 1 .. e : cmdline[k] \in S
      BY <1>1, <1>2, <1>6
    <3>2. b + n + 1 \in Int /\ e \in Int
      BY <1>1
    <3>3. /\ SubSeq(cmdline, b + n + 1, e) \in Seq(S)
          /\ Len(SubSeq(cmdline, b + n + 1, e)) = IF b + n + 1 <= e THEN e - (b + n + 1) + 1 ELSE 0
          /\ \A k \in 1 .. e - (b + n + 1) + 1 : SubSeq(cmdline, b + n + 1, e)[k] = cmdline[b + n + 1 + k - 1]
      BY <3>1, <3>2, SubSeqProperties
    <3>. QED BY <1>1, <1>2, <3>3
  <2>2. /\ w \in Seq(S) /\ Len(w) = e - b + 1
        /\ \A k \in 1 .. e - b + 1 : w[k] = cmdline[b + k - 1]
    <3>1. \A k \in b .. e : cmdline[k] \in S
      BY <1>1, <1>2, <1>6
    <3>2. /\ SubSeq(cmdline, b, e) \in Seq(S)
          /\ Len(SubSeq(cmdline, b, e)) = IF b <= e THEN e - b + 1 ELSE 0
          /\ \A k \in 1 .. e - b + 1 : SubSeq(cmdline, b, e)[k] = cmdline[b + k - 1]
      BY <3>1, SubSeqProperties
    <3>. QED BY <1>1, <1>2, <3>2
  <2>3. /\ h \in Seq(S) /\ Len(h) = n + 1
        /\ \A k \in 1 .. n + 1 : h[k] = IF k <= n THEN name[k] ELSE P!Equals
    <3>1. <<P!Equals>> \in Seq(S) /\ Len(<<P!Equals>>) = 1 /\ <<P!Equals>>[1] = P!Equals
      BY <1>4
    <3>. QED BY <1>1, <3>1, ConcatProperties
  <2>. HIDE DEF v, h, w, m
  <2>4. /\ h \o v \in Seq(S) /\ Len(h \o v) = n + 1 + m
        /\ \A k \in 1 .. n + 1 + m : (h \o v)[k] = IF k <= n + 1 THEN h[k] ELSE v[k - (n + 1)]
    <3>1. Len(v) = m /\ Len(h) = n + 1
      BY <2>1, <2>3 DEF m
    <3>2. /\ h \o v \in Seq(S) /\ Len(h \o v) = Len(h) + Len(v)
          /\ \A k \in 1 .. Len(h) + Len(v) : (h \o v)[k] = IF k <= Len(h) THEN h[k] ELSE v[k - Len(h)]
      BY <2>1, <2>3, ConcatProperties
    <3>. QED BY <3>1, <3>2
  <2>5. e - b + 1 = n + 1 + m /\ Len(w) = Len(h \o v)
    BY <1>1, <2>0, <2>2, <2>4
  <2>6. ASSUME NEW k \in 1 .. n + 1 + m PROVE w[k] = (h \o v)[k]
    <3>0. w[k] = cmdline[b + k - 1]
      BY <2>2, <2>5
    <3>1. CASE k <= n
      <4>1. k \in 1 .. n /\ k \in 1 .. n + 1
        BY <1>1, <3>1
      <4>. QED BY <1>1, <1>3, <2>3, <2>4, <3>0, <4>1
    <3>2. CASE k = n + 1
      BY <1>1, <1>7, <2>3, <2>4, <3>0, <3>2
    <3>3. CASE k > n + 1
      <4>1. k - (n + 1) \in 1 .. e - (b + n) /\ b + n + (k - (n + 1)) = b + k - 1
        BY <1>1, <2>0, <3>3 DEF m
      <4>2. v[k - (n + 1)] = cmdline[b + k - 1]
        BY <2>1, <4>1
      <4>3. ~(k <= n + 1)
        BY <1>1, <3>3
      <4>4. (h \o v)[k] = v[k - (n + 1)]
        BY <2>4, <4>3
      <4>. QED BY <3>0, <4>2, <4>4, Zenon
    <3>4. k <= n \/ k = n + 1 \/ k > n + 1
      BY <1>1, <2>0
    <3>. QED BY <3>1, <3>2, <3>3, <3>4, Zenon
  <2>7. w = h \o v
    <3>1. Len(w) = n + 1 + m
      BY <2>4, <2>5
    <3>. QED BY <2>2, <2>4, <2>5, <2>6, <3>1, SeqEqual
  <2>. QED BY <2>7 DEF h, v, w
<1>8. SubSeq(cmdline, b, b + n - 1) = name
  <2>1. \A k \in b .. b + n - 1 : cmdline[k] \in S
    BY <1>1, <1>2, <1>3, <1>6
  <2>2. /\ SubSeq(cmdline, b, b + n - 1) \in Seq(S)
        /\ Len(SubSeq(cmdline, b, b + n - 1)) = IF b <= b + n - 1 THEN (b + n - 1) - b + 1 ELSE 0
        /\ \A k \in 1 .. (b + n - 1) - b + 1 : SubSeq(cmdline, b, b + n - 1)[k] = cmdline[b + k - 1]
    <3>1. b + n - 1 \in Int
      BY <1>1
    <3>. QED BY <2>1, <3>1, SubSeqProperties
  <2>3. n > 0
    BY DEF n
  <2>4. Len(SubSeq(cmdline, b, b + n - 1)) = n /\ \A k \in 1 .. n : SubSeq(cmdline, b, b + n - 1)[k] = name[k]
    BY <1>1, <1>3, <2>2, <2>3
  <2>. QED BY <1>1, <2>2, <2>4, SeqEqual
<1>. QED BY <1>5, <1>7, <1>8 DEF n

\* Where a value ends: at the first space, or with the line.
LEMMA ValueEndIs ==
  ASSUME P!ScanInv, NEW v \in 1 .. Len(cmdline) + 1
  PROVE  /\ P!ValueEnd(v) \in v .. Len(cmdline) + 1
         /\ \A k \in v .. P!ValueEnd(v) - 1 : cmdline[k] # P!Space
         /\ P!ValueEnd(v) = Len(cmdline) + 1 \/ cmdline[P!ValueEnd(v)] = P!Space
<1>. DEFINE L == Len(cmdline)
            V == {k \in v .. L + 1 : P!At(cmdline, k) \in {P!Space, Zero}}
            e == P!ValueEnd(v)
<1>1. /\ L \in Nat
      /\ \A k \in 1 .. L : P!At(cmdline, k) = cmdline[k] /\ cmdline[k] # Zero
      /\ \A k \in Nat : k > L => P!At(cmdline, k) = Zero
  BY TextFacts DEF P!ScanInv
<1>2. e = P!Min(V)
  BY DEF P!ValueEnd
<1>. HIDE DEF L, e
<1>3. V \in SUBSET Nat /\ L + 1 \in V
  BY <1>1 DEF L
<1>4. e \in V /\ \A k \in V : e <= k
  <2>. HIDE DEF V
  <2>. QED BY <1>2, <1>3, MinIs
<1>5. e \in v .. L + 1 /\ v \in Nat /\ v >= 1
  BY <1>4 DEF L
<1>6. ASSUME NEW k \in v .. e - 1 PROVE cmdline[k] # P!Space
  <2>1. k \in v .. L + 1 /\ k \in 1 .. L /\ ~(e <= k)
    BY <1>1, <1>5
  <2>2. k \notin V
    BY <1>4, <2>1
  <2>. QED BY <1>1, <2>1, <2>2
<1>7. e = L + 1 \/ cmdline[e] = P!Space
  <2>1. CASE e # L + 1
    <3>1. e \in 1 .. L
      BY <1>1, <1>5, <2>1
    <3>. QED BY <1>1, <1>4, <3>1
  <2>. QED BY <2>1
<1>. QED BY <1>5, <1>6, <1>7 DEF e, L

\* What the property says of a result, the line and the name being the same.
LEMMA SameQuestion ==
  ASSUME cmdline' = cmdline, name' = name
  PROVE  /\ P!FindsParameter <=> (P!NameLen > 0 /\ P!Plain => Answers(result))
         /\ P!FindsParameter' <=> (P!NameLen > 0 /\ P!Plain => Answers(result'))
<1>1. P!FindsParameter <=> (P!NameLen > 0 /\ P!Plain => Answers(result))
  BY DEF P!FindsParameter, Answers, Keys
<1>2. P!FindsParameter' <=> (P!NameLen > 0 /\ P!Plain => Answers(result'))
  <2>1. /\ P!WordStarts' = P!WordStarts /\ \A w : P!Word(w)' = P!Word(w)
        /\ \A w : P!KeyIs(w)' <=> P!KeyIs(w)
        /\ P!NameLen' = P!NameLen /\ (P!Plain' <=> P!Plain)
    BY DEF P!WordStarts, P!KeyIs, P!Matches, P!Word, P!NameLen, P!Plain, P!Occurrences, P!At
  <2>2. PICK K : K = Keys
    OBVIOUS
  <2>3. {w \in P!WordStarts' : P!KeyIs(w)'} = K
    BY <2>1, <2>2 DEF Keys
  <2>4. P!FindsParameter' <=>
          (P!NameLen' > 0 /\ P!Plain' =>
             CASE result'.kind = "flag" -> result'.b = (K # {})
               [] result'.kind = "null" -> K = {} \/ P!Word(P!Min(K))' = name'
               [] result'.kind = "value" -> K # {} /\ P!Word(P!Min(K))' = name' \o <<P!Equals>> \o result'.v
               [] OTHER -> TRUE)
    BY <2>3 DEF P!FindsParameter
  <2>5. P!Word(P!Min(K))' = P!Word(P!Min(K))
    BY <2>1
  <2>. QED BY <2>1, <2>2, <2>4, <2>5 DEF Answers
<1>. QED BY <1>1, <1>2

LEMMA FindsParameterStep ==
  ASSUME P!ScanInv, P!FindsParameter, P!Next
  PROVE  P!FindsParameter'
<1>. DEFINE n == P!NameLen
            L == Len(cmdline)
<1>1. fn' = fn /\ cmdline' = cmdline /\ name' = name
  BY ScanStays
<1>2. P!FindsParameter' <=> (n > 0 /\ P!Plain => Answers(result'))
  BY <1>1, SameQuestion
<1>3. SUFFICES ASSUME n > 0, P!Plain PROVE Answers(result')
  BY <1>2
<1>4. /\ L \in Nat /\ p \in 1 .. L + 1
      /\ \A k \in 1 .. L : P!At(cmdline, k) = cmdline[k] /\ cmdline[k] # Zero
      /\ \A k \in Nat : k > L => P!At(cmdline, k) = Zero
  BY TextFacts DEF P!ScanInv
<1>5. n \in Nat /\ \A k \in 1 .. n : name[k] \notin {Zero, P!Space, P!Equals}
  BY NameFacts
<1>6. Keys \in SUBSET Nat /\ Keys \subseteq 1 .. L /\ \A w \in Keys : P!Matches(w)
  BY KeysFacts
<1>. HIDE DEF n, L
<1>7. ASSUME P!Scanning("get") \/ P!Scanning("has") PROVE p \in 1 .. L
  BY <1>4, <1>7 DEF P!Scanning
<1>8. CASE P!End
  <2>1. result = P!None /\ P!At(cmdline, p) = Zero /\ result' = IF fn = "get" THEN P!Null ELSE P!Flag(FALSE)
    BY <1>3, <1>8 DEF P!End, P!Return, n
  <2>2. p = L + 1
    BY <1>4, <2>1
  <2>3. CASE fn = "get"
    <3>1. Keys = {}
      <4>1. \A k \in 1 .. L : ~P!Matches(k)
        BY <1>4, <2>2, <2>3 DEF P!ScanInv
      <4>. QED BY <1>6, <4>1
    <3>. QED BY <2>1, <2>3, <3>1 DEF Answers, P!Null
  <2>4. CASE fn # "get"
    <3>1. fn = "has"
      BY <2>1, <2>4 DEF P!ScanInv
    <3>2. p = 1 /\ L = 0
      BY <1>3, <1>4, <2>2, <3>1 DEF P!ScanInv
    <3>3. Keys = {}
      BY <1>6, <3>2
    <3>. QED BY <2>1, <2>4, <3>3 DEF Answers, P!Flag
  <2>. QED BY <2>3, <2>4
<1>9. CASE P!NoMatchHere \/ P!FoundInWord
  <2>1. result' = P!None
    BY <1>9 DEF P!NoMatchHere, P!FoundInWord, P!Scanning, P!Running
  <2>. QED BY <2>1 DEF Answers, P!None
<1>10. CASE P!MatchWithValue
  <2>1. fn = "get" /\ p \in 1 .. L /\ P!Matches(p) /\ P!At(cmdline, p + n) = P!Equals
    BY <1>7, <1>10 DEF P!MatchWithValue, P!Scanning, P!Running, n
  <2>. DEFINE v == p + n + 1
              e == P!ValueEnd(v)
  <2>2. CASE result' = P!NoMemory
    BY <2>2 DEF Answers, P!NoMemory
  <2>3. CASE result' = P!Value(SubSeq(cmdline, v, e - 1))
    <3>1. p \in Keys /\ P!Min(Keys) = p /\ cmdline[p] # P!Space
      BY <1>3, <2>1, MatchIsKey DEF L
    <3>2. /\ \A k \in p .. p + n - 1 : k <= L /\ cmdline[k] \notin {Zero, P!Space, P!Equals}
          /\ \A e1 \in p + n .. L : cmdline[p + n] = P!Equals =>
               SubSeq(cmdline, p, e1) = name \o <<P!Equals>> \o SubSeq(cmdline, v, e1)
      BY <1>3, <2>1, AfterName DEF L, n
    <3>3. p + n \in 1 .. L /\ cmdline[p + n] = P!Equals
      <4>1. P!Equals # Zero
        BY LibraryAssumption DEF P!ParamsAssumption
      <4>2. p + n \in Nat /\ p + n >= 1
        BY <1>4, <1>5
      <4>. QED BY <1>4, <2>1, <4>1, <4>2
    <3>4. v \in 1 .. L + 1
      BY <1>4, <1>5, <3>3
    <3>5. /\ e \in v .. L + 1
          /\ \A k \in v .. e - 1 : cmdline[k] # P!Space
          /\ e = L + 1 \/ cmdline[e] = P!Space
      BY <3>4, ValueEndIs DEF L
    <3>6. P!Space # P!Equals
      BY Zenon DEF P!Space, P!Equals
    <3>. HIDE DEF e
    <3>7. e - 1 \in p + n .. L /\ e - 1 \in p .. L /\ (e - 1) + 1 = e
      BY <1>4, <1>5, <3>3, <3>5
    <3>8. \A k \in p .. e - 1 : cmdline[k] # P!Space
      <4>1. ASSUME NEW k \in p .. e - 1 PROVE cmdline[k] # P!Space
        <5>1. k \in p .. p + n - 1 \/ k = p + n \/ k \in v .. e - 1
          BY <1>4, <1>5, <3>5
        <5>. QED BY <3>2, <3>3, <3>5, <3>6, <5>1
      <4>. QED BY <4>1
    <3>9. e - 1 = L \/ cmdline[(e - 1) + 1] = P!Space
      BY <1>4, <3>5, <3>7
    <3>10. P!Word(p) = SubSeq(cmdline, p, e - 1)
      BY <2>1, <3>7, <3>8, <3>9, WordIs DEF L
    <3>11. P!Word(p) = name \o <<P!Equals>> \o SubSeq(cmdline, v, e - 1)
      BY <3>2, <3>3, <3>7, <3>10
    <3>12. result'.kind = "value" /\ result'.v = SubSeq(cmdline, v, e - 1)
      BY <2>3 DEF P!Value
    <3>13. Keys # {} /\ P!Word(P!Min(Keys)) = name \o <<P!Equals>> \o result'.v
      BY <3>1, <3>11, <3>12
    <3>. QED BY <3>12, <3>13 DEF Answers
  <2>. QED BY <1>10, <2>2, <2>3 DEF P!MatchWithValue, P!Return, n
<1>11. CASE P!MatchAlone
  <2>1. fn = "get" /\ p \in 1 .. L /\ P!Matches(p) /\ P!At(cmdline, p + n) # P!Equals /\ result' = P!Null
    BY <1>7, <1>11 DEF P!MatchAlone, P!Scanning, P!Running, P!Return, n
  <2>2. P!Min(Keys) = p /\ P!At(cmdline, p + n) \in {Zero, P!Space, P!Equals}
    BY <1>3, <2>1, MatchIsKey DEF L, n
  <2>3. /\ \A k \in p .. p + n - 1 : k <= L /\ cmdline[k] \notin {Zero, P!Space, P!Equals}
        /\ SubSeq(cmdline, p, p + n - 1) = name
    BY <1>3, <2>1, AfterName DEF L, n
  <2>4. p + n - 1 \in p .. L /\ (p + n - 1) + 1 = p + n
    BY <1>3, <1>4, <1>5, <2>3
  <2>5. p + n - 1 = L \/ cmdline[(p + n - 1) + 1] = P!Space
    <3>1. CASE p + n \in 1 .. L
      BY <1>4, <2>1, <2>2, <2>4, <3>1
    <3>2. CASE p + n \notin 1 .. L
      BY <1>4, <1>5, <2>4, <3>2
    <3>. QED BY <3>1, <3>2
  <2>6. P!Word(p) = SubSeq(cmdline, p, p + n - 1)
    BY <2>1, <2>3, <2>4, <2>5, WordIs DEF L
  <2>7. P!Word(P!Min(Keys)) = name
    BY <2>2, <2>3, <2>6
  <2>. QED BY <2>1, <2>7 DEF Answers, P!Null
<1>12. CASE P!NotFound
  <2>1. fn = "has" /\ P!Occurrences(p) = {} /\ result' = P!Flag(FALSE)
    BY <1>12 DEF P!NotFound, P!Scanning, P!Running, P!Return
  <2>2. p = 1
    BY <1>3, <1>4, <2>1 DEF P!ScanInv
  <2>3. Keys = {}
    BY <1>6, <2>1, <2>2 DEF P!Occurrences, L
  <2>. QED BY <2>1, <2>3 DEF Answers, P!Flag
<1>13. CASE P!FoundParam
  <2>1. fn = "has" /\ P!Occurrences(p) # {} /\ result' = P!Flag(TRUE)
    BY <1>13 DEF P!FoundParam, P!Scanning, P!Running, P!Return
  <2>2. p = 1
    BY <1>3, <1>4, <2>1 DEF P!ScanInv
  <2>3. Keys # {}
    BY <1>3, <2>1, <2>2 DEF P!Plain, Keys
  <2>. QED BY <2>1, <2>3 DEF Answers, P!Flag
<1>. QED BY <1>8, <1>9, <1>10, <1>11, <1>12, <1>13 DEF P!Next

-----------------------------------------------------------------------------
\* Tags and tables

LEMMA AtLeast == \A a, b \in Nat : a >= b /\ b >= 8 => a >= 8
OBVIOUS

LEMMA UpTo8Is ==
  ASSUME NEW n \in Nat
  PROVE  W!UpTo8(n) \in Nat /\ W!UpTo8(n) >= n
BY DEF W!UpTo8

\* The addresses up to the tag of index k.
IsAddress(a, k) ==
  a = [j \in 1 .. k |-> IF j = 1 THEN 8 ELSE a[j - 1] + W!UpTo8(tags[j - 1].size)]

LEMMA AddressExists ==
  \A k \in Nat : \E a : IsAddress(a, k)
<1>. DEFINE T == {k \in Nat : ~ \E a : IsAddress(a, k)}
<1>1. SUFFICES ASSUME T # {} PROVE FALSE
  OBVIOUS
<1>2. PICK m \in T : \A k \in T : m <= k
  <2>1. T \in SUBSET Nat
    OBVIOUS
  <2>. HIDE DEF T
  <2>. QED BY <1>1, <2>1, LeastNat
<1>3. CASE m = 0
  <2>1. IsAddress(<<>>, 0)
    BY DEF IsAddress
  <2>. QED BY <1>2, <1>3, <2>1
<1>4. CASE m > 0
  <2>1. m - 1 \in Nat /\ ~(m <= m - 1)
    BY <1>2, <1>4
  <2>2. m - 1 \notin T
    BY <1>2, <2>1
  <2>3. PICK a : IsAddress(a, m - 1)
    BY <2>1, <2>2
  <2>. DEFINE b == [j \in 1 .. m |-> IF j = 1 THEN 8 ELSE a[j - 1] + W!UpTo8(tags[j - 1].size)]
  <2>4. \A j \in 1 .. m - 1 : b[j] = a[j]
    BY <1>2, <2>1, <2>3 DEF IsAddress
  <2>5. \A j \in 1 .. m : j # 1 => j - 1 \in 1 .. m - 1
    BY <1>2
  <2>6. \A j \in 1 .. m : b[j] = IF j = 1 THEN 8 ELSE b[j - 1] + W!UpTo8(tags[j - 1].size)
    BY <2>4, <2>5
  <2>7. b = [j \in 1 .. m |-> b[j]]
    OBVIOUS
  <2>. HIDE DEF b
  <2>8. IsAddress(b, m)
    BY <2>6, <2>7 DEF IsAddress
  <2>. QED BY <1>2, <2>8
<1>. QED BY <1>2, <1>3, <1>4

LEMMA AddressIs ==
  ASSUME NEW k \in Nat \ {0}, NEW f, IsAddress(f, k)
  PROVE  W!Address(k) = f[k]
<1>1. PICK a : /\ W!Address(k) = a[k]
               /\ IsAddress(a, k)
  <2>. DEFINE a == CHOOSE a : a = [j \in 1 .. k |-> IF j = 1 THEN 8 ELSE a[j - 1] + W!UpTo8(tags[j - 1].size)]
  <2>1. W!Address(k) = a[k]
    BY DEF W!Address
  <2>2. IsAddress(a, k)
    BY DEF IsAddress
  <2>. QED BY <2>1, <2>2
<1>. DEFINE T == {j \in 1 .. k : a[j] # f[j]}
<1>2. CASE T = {}
  BY <1>1, <1>2
<1>3. CASE T # {}
  <2>1. PICK m \in T : \A j \in T : m <= j
    <3>1. T \in SUBSET Nat
      OBVIOUS
    <3>. HIDE DEF T
    <3>. QED BY <1>3, <3>1, LeastNat
  <2>2. m # 1
    BY <1>1, <2>1 DEF IsAddress
  <2>3. m - 1 \in 1 .. k /\ ~(m <= m - 1)
    BY <2>1, <2>2
  <2>4. a[m - 1] = f[m - 1]
    BY <2>1, <2>3
  <2>5. a[m] = f[m]
    BY <1>1, <2>1, <2>2, <2>4 DEF IsAddress
  <2>. QED BY <2>1, <2>5
<1>. QED BY <1>2, <1>3

LEMMA AddressStep ==
  /\ W!Address(1) = 8
  /\ \A k \in Nat \ {0} : W!Address(k + 1) = W!Address(k) + W!UpTo8(tags[k].size)
<1>1. W!Address(1) = 8
  <2>1. PICK a : IsAddress(a, 1)
    BY AddressExists
  <2>2. a[1] = 8
    BY <2>1 DEF IsAddress
  <2>. QED BY <2>1, <2>2, AddressIs
<1>2. ASSUME NEW k \in Nat \ {0}
      PROVE  W!Address(k + 1) = W!Address(k) + W!UpTo8(tags[k].size)
  <2>1. PICK a : IsAddress(a, k + 1)
    BY AddressExists
  <2>. DEFINE b == [j \in 1 .. k |-> a[j]]
  <2>2. \A j \in 1 .. k : a[j] = IF j = 1 THEN 8 ELSE a[j - 1] + W!UpTo8(tags[j - 1].size)
    BY <2>1 DEF IsAddress
  <2>3. \A j \in 1 .. k : b[j] = IF j = 1 THEN 8 ELSE b[j - 1] + W!UpTo8(tags[j - 1].size)
    <3>1. \A j \in 1 .. k : j # 1 => j - 1 \in 1 .. k
      OBVIOUS
    <3>. QED BY <2>2, <3>1
  <2>4. b = [j \in 1 .. k |-> b[j]] /\ b[k] = a[k]
    OBVIOUS
  <2>5. IsAddress(b, k)
    <3>. HIDE DEF b
    <3>. QED BY <2>3, <2>4 DEF IsAddress
  <2>6. a[k + 1] = a[k] + W!UpTo8(tags[k].size)
    BY <2>1 DEF IsAddress
  <2>7. W!Address(k + 1) = a[k + 1] /\ W!Address(k) = b[k]
    <3>. HIDE DEF b
    <3>. QED BY <2>1, <2>5, AddressIs
  <2>. QED BY <2>4, <2>6, <2>7
<1>. QED BY <1>1, <1>2

\* The addresses rise with the index.
LEMMA AddressRises ==
  ASSUME tags \in Seq([type : Nat \ {0}, size : Nat \ (0 .. 7)])
  PROVE  /\ \A k \in 1 .. Len(tags) + 1 : W!Address(k) \in Nat /\ W!Address(k) >= 8
         /\ \A k \in 1 .. Len(tags) + 1 : \A j \in 1 .. k - 1 : W!Address(j) < W!Address(k)
<1>. DEFINE L == Len(tags)
            T == {k \in 1 .. L + 1 : ~ (/\ W!Address(k) \in Nat /\ W!Address(k) >= 8
                                       /\ \A j \in 1 .. k - 1 : W!Address(j) < W!Address(k))}
<1>1. L \in Nat /\ \A k \in 1 .. L : tags[k].size \in Nat /\ tags[k].size >= 8
  <2>1. \A s : s \in Nat \ (0 .. 7) => s \in Nat /\ s >= 8
    OBVIOUS
  <2>2. \A t : t \in [type : Nat \ {0}, size : Nat \ (0 .. 7)] => t.size \in Nat \ (0 .. 7)
    OBVIOUS
  <2>3. Len(tags) \in Nat /\ \A k \in 1 .. Len(tags) : tags[k] \in [type : Nat \ {0}, size : Nat \ (0 .. 7)]
    BY ElementOfSeq, LenProperties, Zenon
  <2>. QED BY <2>1, <2>2, <2>3, Zenon DEF L
<1>. HIDE DEF L
<1>2. SUFFICES ASSUME T # {} PROVE FALSE
  BY DEF L
<1>3. PICK m \in T : \A k \in T : m <= k
  <2>1. T \in SUBSET Nat
    BY <1>1
  <2>. HIDE DEF T
  <2>. QED BY <1>2, <2>1, LeastNat
<1>4. CASE m = 1
  BY <1>3, <1>4, AddressStep
<1>5. CASE m # 1
  <2>1. m - 1 \in 1 .. L /\ m - 1 \in Nat \ {0} /\ (m - 1) + 1 = m /\ m - 1 \in 1 .. L + 1 /\ ~(m <= m - 1)
    BY <1>1, <1>3, <1>5
  <2>2. m - 1 \notin T
    BY <1>3, <2>1
  <2>3. PICK k : k = m - 1
    OBVIOUS
  <2>4. W!Address(k) \in Nat /\ W!Address(k) >= 8 /\ \A j \in 1 .. k - 1 : W!Address(j) < W!Address(k)
    BY <2>1, <2>2, <2>3
  <2>5. W!Address(m) = W!Address(k) + W!UpTo8(tags[k].size)
    BY <2>1, <2>3, AddressStep
  <2>6. PICK u : u = W!UpTo8(tags[k].size) /\ u \in Nat /\ u >= 8
    <3>1. PICK s \in Nat : s = tags[k].size /\ s >= 8
      <4>1. k \in 1 .. L
        BY <2>1, <2>3, Zenon
      <4>2. tags[k].size \in Nat /\ tags[k].size >= 8
        BY <1>1, <4>1, Zenon
      <4>. QED BY <4>2, Zenon
    <3>2. W!UpTo8(s) \in Nat /\ W!UpTo8(s) >= s
      BY UpTo8Is
    <3>3. PICK v \in Nat : v = W!UpTo8(s) /\ v >= s
      BY <3>2, Zenon
    <3>4. v = W!UpTo8(tags[k].size)
      BY <3>1, <3>3, Zenon
    <3>5. v >= 8
      BY <3>1, <3>3, AtLeast, Zenon
    <3>. QED BY <3>4, <3>5, Zenon
  <2>7. W!Address(m) \in Nat /\ W!Address(m) >= 8 /\ W!Address(k) < W!Address(m)
    <3>1. W!Address(m) = W!Address(k) + u
      BY <2>5, <2>6
    <3>2. PICK a \in Nat : a = W!Address(k) /\ a >= 8
      BY <2>4
    <3>. QED BY <2>6, <3>1, <3>2
  <2>8. \A j \in 1 .. m - 1 : W!Address(j) < W!Address(m)
    <3>1. ASSUME NEW j \in 1 .. m - 1 PROVE W!Address(j) < W!Address(m)
      <4>1. CASE j = k
        BY <2>7, <4>1
      <4>2. CASE j # k
        <5>1. j \in 1 .. k - 1 /\ j \in 1 .. L + 1 /\ ~(m <= j)
          BY <1>1, <1>3, <2>1, <2>3, <4>2
        <5>2. W!Address(j) \in Nat
          BY <1>3, <5>1
        <5>. QED BY <2>4, <2>5, <2>6, <5>1, <5>2
      <4>. QED BY <4>1, <4>2
    <3>. QED BY <3>1
  <2>. QED BY <1>3, <2>7, <2>8
<1>. QED BY <1>4, <1>5

\* What is read at the address of a tag is that tag.
LEMMA TagAtIs ==
  ASSUME tags \in Seq([type : Nat \ {0}, size : Nat \ (0 .. 7)])
  PROVE  /\ \A k \in 1 .. Len(tags) : W!TagAt(W!Address(k)) = tags[k]
         /\ W!TagAt(W!Address(Len(tags) + 1)).type = 0
<1>. DEFINE L == Len(tags)
<1>1. L \in Nat /\ DOMAIN tags = 1 .. L
  OBVIOUS
<1>2. \A j \in 1 .. L + 1 : \A k \in 1 .. L + 1 : W!Address(j) = W!Address(k) => j = k
  <2>1. ASSUME NEW j \in 1 .. L + 1, NEW k \in 1 .. L + 1, j < k PROVE W!Address(j) # W!Address(k)
    <3>1. j \in 1 .. k - 1
      BY <1>1, <2>1
    <3>. QED BY <3>1, AddressRises
  <2>. QED BY <1>1, <2>1
<1>. HIDE DEF L
<1>3. ASSUME NEW k \in 1 .. L PROVE W!TagAt(W!Address(k)) = tags[k]
  <2>1. k \in 1 .. L + 1 /\ L + 1 \in 1 .. L + 1 /\ k # L + 1 /\ W!End = W!Address(L + 1)
    BY <1>1 DEF W!End, L
  <2>2. W!Address(k) # W!End
    BY <1>2, <2>1
  <2>3. PICK c : c = CHOOSE j \in DOMAIN tags : W!Address(j) = W!Address(k)
    OBVIOUS
  <2>4. c \in DOMAIN tags /\ W!Address(c) = W!Address(k)
    BY <1>1, <2>3
  <2>5. c = k
    BY <1>1, <1>2, <2>1, <2>4
  <2>. QED BY <2>2, <2>3, <2>5, Zenon DEF W!TagAt
<1>4. W!TagAt(W!Address(L + 1)).type = 0
  BY DEF W!TagAt, W!End, L
<1>. QED BY <1>3, <1>4 DEF L

\* The part of TablesFound about the walk, and the one about the tables.
WalkFound ==
  LET of == {k \in DOMAIN tags : tags[k].type = wanted}
  IN  located = IF of = {} THEN W!NULL ELSE W!Address(W!Min(of))
TablesAre ==
  /\ rsdt[madt] = "APIC" /\ "APIC" \notin {rsdt[e] : e \in 1 .. madt - 1}
  /\ rsdt[fadt] = "FACP" /\ "FACP" \notin {rsdt[e] : e \in 1 .. fadt - 1}

LEMMA SameAddresses ==
  ASSUME tags' = tags, wanted' = wanted, located' = located
  PROVE  (\A k : W!Address(k)' = W!Address(k)) /\ (WalkFound' <=> WalkFound)
<1>1. \A k : W!Address(k)' = W!Address(k)
  BY DEF W!Address
<1>. QED BY <1>1 DEF WalkFound

\* The ends of a structure's fields, and where one begins.
LEMMA OffsetIs ==
  ASSUME NEW struct, NEW k \in Nat, NEW g, g[0] = 0,
         \A j \in 1 .. k :
           g[j] = ((g[j - 1] + struct[j][2] - 1) \div struct[j][2]) * struct[j][2] + struct[j][1]
  PROVE  W!OffsetOf(struct, k) = g[k] - struct[k][1]
<1>. DEFINE At(f, j) ==
       IF j = 0 THEN 0
       ELSE ((f[j - 1] + struct[j][2] - 1) \div struct[j][2]) * struct[j][2] + struct[j][1]
            end == CHOOSE end : end = [j \in 0 .. k |-> At(end, j)]
            h == [j \in 0 .. k |-> g[j]]
<1>1. W!OffsetOf(struct, k) = end[k] - struct[k][1]
  BY DEF W!OffsetOf
<1>2. h = [j \in 0 .. k |-> At(h, j)]
  <2>1. \A j \in 0 .. k : j # 0 => j - 1 \in 0 .. k /\ j \in 1 .. k
    OBVIOUS
  <2>2. \A j \in 0 .. k : h[j] = At(h, j)
    BY <2>1
  <2>. QED BY <2>2
<1>. HIDE DEF h, At
<1>3. end = [j \in 0 .. k |-> At(end, j)]
  BY <1>2
<1>. HIDE DEF end
<1>. DEFINE T == {j \in 0 .. k : end[j] # h[j]}
<1>4. CASE T = {}
  <2>1. k \in 0 .. k
    OBVIOUS
  <2>2. end[k] = h[k] /\ h[k] = g[k]
    BY <1>4, <2>1 DEF h
  <2>. QED BY <1>1, <2>2
<1>5. CASE T # {}
  <2>1. PICK m \in T : \A j \in T : m <= j
    <3>1. T \in SUBSET Nat
      OBVIOUS
    <3>. HIDE DEF T
    <3>. QED BY <1>5, <3>1, LeastNat
  <2>2. end[m] = At(end, m) /\ h[m] = At(h, m)
    BY <1>2, <1>3, <2>1
  <2>3. CASE m = 0
    BY <2>1, <2>2, <2>3 DEF At
  <2>4. CASE m # 0
    <3>1. m - 1 \in 0 .. k /\ ~(m <= m - 1)
      BY <2>1, <2>4
    <3>2. end[m - 1] = h[m - 1]
      BY <2>1, <3>1
    <3>. QED BY <2>1, <2>2, <3>2 DEF At
  <2>. QED BY <2>3, <2>4
<1>. QED BY <1>4, <1>5

\* What the two structures that are read by their sizes come to.
LEMMA TableHeader == W!SizeOf(W!SdtHdr) = 36
<1>. DEFINE s == W!SdtHdr \o <<W!Char(0)>>
            g == [j \in 0 .. 10 |-> IF j = 0 THEN 0 ELSE <<4, 8, 9, 10, 16, 24, 28, 32, 36, 36>>[j]]
<1>1. /\ s[1] = <<4, 1>> /\ s[2] = <<4, 4>> /\ s[3] = <<1, 1>> /\ s[4] = <<1, 1>> /\ s[5] = <<6, 1>>
      /\ s[6] = <<8, 1>> /\ s[7] = <<4, 4>> /\ s[8] = <<4, 4>> /\ s[9] = <<4, 4>> /\ s[10] = <<0, 1>>
      /\ Len(W!SdtHdr) + 1 = 10
  BY DEF W!SdtHdr, W!Char, W!Uint
<1>2. /\ g[0] = 0 /\ g[1] = 4 /\ g[2] = 8 /\ g[3] = 9 /\ g[4] = 10 /\ g[5] = 16
      /\ g[6] = 24 /\ g[7] = 28 /\ g[8] = 32 /\ g[9] = 36 /\ g[10] = 36
  OBVIOUS
<1>. HIDE DEF s, g
<1>3. \A j \in 1 .. 10 : g[j] = ((g[j - 1] + s[j][2] - 1) \div s[j][2]) * s[j][2] + s[j][1]
  <2>1. \A j \in 1 .. 10 : j = 1 \/ j = 2 \/ j = 3 \/ j = 4 \/ j = 5 \/ j = 6 \/ j = 7 \/ j = 8 \/ j = 9 \/ j = 10
    OBVIOUS
  <2>. QED BY <1>1, <1>2, <2>1, SMTT(30)
<1>4. W!OffsetOf(s, 10) = 36
  <2>1. W!OffsetOf(s, 10) = g[10] - s[10][1]
    <3>1. 10 \in Nat /\ g[0] = 0
      BY <1>2
    <3>. QED BY <1>3, <3>1, OffsetIs, Zenon
  <2>. QED BY <1>1, <1>2, <2>1
<1>. QED BY <1>1, <1>4 DEF W!SizeOf, s

LEMMA HeaderIsRead == W!HeaderRead
<1>. DEFINE s == W!HeaderTag \o W!Times(3, W!Uint(4)) \o <<W!Char(0)>>
            g == [j \in 0 .. 7 |-> IF j = 0 THEN 0 ELSE <<2, 4, 8, 12, 16, 20, 20>>[j]]
<1>1. /\ s[1] = <<2, 2>> /\ s[2] = <<2, 2>> /\ s[3] = <<4, 4>> /\ s[4] = <<4, 4>> /\ s[5] = <<4, 4>>
      /\ s[6] = <<4, 4>> /\ s[7] = <<0, 1>>
      /\ Len(W!HeaderTag \o W!Times(3, W!Uint(4))) + 1 = 7
  BY DEF W!HeaderTag, W!Times, W!Char, W!Uint
<1>2. /\ g[0] = 0 /\ g[1] = 2 /\ g[2] = 4 /\ g[3] = 8 /\ g[4] = 12 /\ g[5] = 16 /\ g[6] = 20 /\ g[7] = 20
  OBVIOUS
<1>. HIDE DEF s, g
<1>3. \A j \in 1 .. 7 : g[j] = ((g[j - 1] + s[j][2] - 1) \div s[j][2]) * s[j][2] + s[j][1]
  <2>1. \A j \in 1 .. 7 : j = 1 \/ j = 2 \/ j = 3 \/ j = 4 \/ j = 5 \/ j = 6 \/ j = 7
    OBVIOUS
  <2>. QED BY <1>1, <1>2, <2>1
<1>4. W!SizeOf(W!HeaderTag \o W!Times(3, W!Uint(4))) = 20
  <2>1. W!OffsetOf(s, 7) = g[7] - s[7][1]
    <3>1. 7 \in Nat /\ g[0] = 0
      BY <1>2
    <3>. QED BY <1>3, <3>1, OffsetIs, Zenon
  <2>. QED BY <1>1, <1>2, <2>1 DEF W!SizeOf, s
<1>5. W!HeaderEnd = 44 /\ W!HeaderWord(16) = 65541 /\ W!HeaderWord(20) = 20 /\ W!HeaderWord(40) = 0
  BY DEF W!HeaderEnd, W!HeaderWord, W!Header
<1>6. W!UpTo8(20) = 24 /\ 65541 % 65536 = 5 /\ 0 % 65536 = 0
  BY DEF W!UpTo8
<1>7. W!HeaderTagTypes[5] = "FRAMEBUFFER"
  BY DEF W!HeaderTagTypes
<1>. QED BY <1>4, <1>5, <1>6, <1>7 DEF W!HeaderRead

LEMMA FindSdtIs ==
  ASSUME rsdt \in Seq(STRING), NEW s, W!FindSdt(s) # W!NULL
  PROVE  rsdt[W!FindSdt(s)] = s /\ s \notin {rsdt[e] : e \in 1 .. W!FindSdt(s) - 1}
<1>. DEFINE at == {e \in 1 .. W!Entries : rsdt[e] = s}
            n == W!Entries
<1>1. n \in Nat
  <2>1. PICK l \in Nat : l = Len(rsdt)
    OBVIOUS
  <2>2. n = ((36 + 4 * l) - 36) \div 4
    BY <2>1, TableHeader DEF W!Entries, W!Length
  <2>. QED BY <2>2
<1>2. at # {} /\ W!FindSdt(s) = W!Min(at)
  BY DEF W!FindSdt
<1>3. PICK m : m = W!FindSdt(s) /\ m \in at /\ \A k \in at : m <= k
  <2>1. at \in SUBSET Nat
    BY <1>1
  <2>. HIDE DEF at
  <2>. QED BY <1>2, <2>1, MinIs
<1>. HIDE DEF n
<1>4. ASSUME NEW e \in 1 .. m - 1 PROVE rsdt[e] # s
  <2>1. e \in 1 .. n /\ ~(m <= e)
    BY <1>1, <1>3 DEF n
  <2>2. e \notin at
    BY <1>3, <2>1
  <2>. QED BY <2>1, <2>2 DEF n
<1>. QED BY <1>3, <1>4

LEMMA WalkStep ==
  ASSUME W!WalkInv, W!TablesFound, W!FirmwareStep
  PROVE  W!WalkInv' /\ W!TablesFound'
<1>. DEFINE L == Len(tags)
            S == [type : Nat \ {0}, size : Nat \ (0 .. 7)]
            of == {j \in DOMAIN tags : tags[j].type = wanted}
<1>1. tags' = tags /\ wanted' = wanted /\ rsdt' = rsdt
  BY DEF W!FirmwareStep, W!NoTag, W!ThisTag, W!NextTag, W!AcpiInit, W!Found
<1>2. L \in Nat /\ DOMAIN tags = 1 .. L /\ tags \in Seq(S)
  BY DEF W!WalkInv
<1>3. PICK k \in 1 .. L + 1 : tag = W!Address(k) /\ \A j \in 1 .. k - 1 : tags[j].type # wanted
  BY DEF W!WalkInv
<1>4. \A j : W!Address(j)' = W!Address(j)
  BY <1>1 DEF W!Address
<1>5. /\ k \in 1 .. L => W!TagAt(tag) = tags[k] /\ tags[k].type # 0
      /\ k = L + 1 => W!TagAt(tag).type = 0
  <2>1. /\ \A j \in 1 .. L : W!TagAt(W!Address(j)) = tags[j]
        /\ W!TagAt(W!Address(L + 1)).type = 0
    BY <1>2, TagAtIs
  <2>2. \A j \in 1 .. L : tags[j] \in S
    BY <1>2, ElementOfSeq, Zenon DEF L
  <2>. QED BY <1>3, <2>1, <2>2
<1>. HIDE DEF L, S
<1>6. (\A j \in 1 .. L : tags[j].type # wanted) => of = {}
  BY <1>2
<1>7. W!WalkInv'
  <2>1. CASE ~W!NextTag
    <3>1. tag' = tag
      BY <2>1 DEF W!FirmwareStep, W!NoTag, W!ThisTag, W!AcpiInit, W!Found
    <3>. QED BY <1>1, <1>4, <3>1 DEF W!WalkInv
  <2>2. CASE W!NextTag
    <3>1. k \in 1 .. L /\ tags[k].type # wanted
      BY <1>2, <1>3, <1>5, <2>2 DEF W!NextTag
    <3>2. tag' = W!Address(k) + W!UpTo8(tags[k].size)
      BY <1>3, <1>5, <2>2, <3>1 DEF W!NextTag, W!Stride
    <3>3. tag' = W!Address(k + 1) /\ k + 1 \in 1 .. L + 1
      <4>1. k \in Nat \ {0} /\ k + 1 \in 1 .. L + 1
        BY <1>2, <3>1
      <4>. QED BY <3>2, <4>1, AddressStep
    <3>4. \A j \in 1 .. (k + 1) - 1 : tags[j].type # wanted
      BY <1>2, <1>3, <3>1
    <3>5. \E c \in 1 .. Len(tags') + 1 : tag' = W!Address(c)' /\ \A j \in 1 .. c - 1 : tags'[j].type # wanted'
      BY <1>1, <1>4, <3>3, <3>4 DEF L
    <3>. QED BY <1>1, <3>5 DEF W!WalkInv
  <2>. QED BY <2>1, <2>2
<1>8. tag' \in {W!Address(j)' : j \in 1 .. Len(tags') + 1}
  BY <1>7 DEF W!WalkInv
<1>9. located' # W!NotYet => WalkFound'
  <2>1. CASE W!NoTag
    <3>1. k = L + 1
      BY <1>2, <1>3, <1>5, <2>1 DEF W!NoTag
    <3>2. of = {}
      BY <1>2, <1>3, <1>6, <3>1
    <3>. QED BY <1>1, <2>1, <3>2 DEF WalkFound, W!NoTag, W!Found
  <2>2. CASE W!ThisTag
    <3>1. k \in 1 .. L /\ tags[k].type = wanted /\ located' = W!Address(k)
      BY <1>2, <1>3, <1>5, <2>2 DEF W!ThisTag, W!Found
    <3>2. of \in SUBSET Nat /\ k \in of
      BY <1>2, <3>1
    <3>3. PICK m : m = W!Min(of) /\ m \in of /\ \A j \in of : m <= j
      <4>. HIDE DEF of
      <4>. QED BY <3>2, MinIs
    <3>4. m = k
      <4>1. m \in 1 .. L /\ tags[m].type = wanted /\ m <= k
        BY <1>2, <3>2, <3>3
      <4>2. m \notin 1 .. k - 1
        BY <1>3, <4>1
      <4>. QED BY <1>2, <3>1, <4>1, <4>2
    <3>5. located' = IF of = {} THEN W!NULL ELSE W!Address(W!Min(of))
      BY <3>1, <3>2, <3>3, <3>4
    <3>. QED BY <1>1, <1>4, <3>5 DEF WalkFound
  <2>3. CASE W!NextTag \/ W!AcpiInit
    <3>1. located' = located
      BY <2>3 DEF W!NextTag, W!AcpiInit
    <3>2. located # W!NotYet => WalkFound
      BY DEF W!TablesFound, WalkFound
    <3>. QED BY <1>1, <3>1, <3>2, SameAddresses
  <2>. QED BY <2>1, <2>2, <2>3 DEF W!FirmwareStep
<1>10. enabled' => TablesAre'
  <2>1. CASE W!AcpiInit
    <3>1. rsdt \in Seq(STRING)
      BY DEF W!WalkInv
    <3>. QED BY <1>1, <2>1, <3>1, FindSdtIs DEF W!AcpiInit, TablesAre
  <2>2. CASE W!NoTag \/ W!ThisTag \/ W!NextTag
    <3>1. enabled' = enabled /\ madt' = madt /\ fadt' = fadt
      BY <2>2 DEF W!NoTag, W!ThisTag, W!NextTag, W!Found
    <3>. QED BY <1>1, <3>1 DEF W!TablesFound, TablesAre
  <2>. QED BY <2>1, <2>2 DEF W!FirmwareStep
<1>. QED BY <1>7, <1>8, <1>9, <1>10 DEF W!TablesFound, WalkFound, TablesAre

-----------------------------------------------------------------------------
\* Memory and strings

\* A block of m bytes copied from the bottom up, once it is all read before it is
\* written over.
CopiedBlock(mem, a, b, m) ==
  [x \in DOMAIN mem |-> IF x \in a .. a + m - 1 THEN mem[b + x - a] ELSE mem[x]]

\* Both blocks are in the memory, and copied as they were.
Copyable(M, a, b, m) ==
  m = 0 \/ (a + m - 1 \in 0 .. M /\ b + m - 1 \in 0 .. M /\ (a <= b \/ b + m <= a))

LEMMA CopyUpIs ==
  ASSUME NEW M \in Nat, NEW mem \in [0 .. M -> Nat], NEW a \in Nat, NEW b \in Nat, NEW m \in Nat,
         Copyable(M, a, b, m)
  PROVE  CopyUp(mem, a, b, m) = CopiedBlock(mem, a, b, m)
<1>. DEFINE Byte(f, k) == IF k = 0 THEN mem ELSE [f[k - 1] EXCEPT ![a + k - 1] = f[k - 1][b + k - 1]]
            after == CHOOSE after : after = [k \in 0 .. m |-> Byte(after, k)]
            G == [k \in 0 .. m |-> CopiedBlock(mem, a, b, k)]
<1>1. CopyUp(mem, a, b, m) = after[m]
  BY DEF CopyUp
<1>2. CopiedBlock(mem, a, b, 0) = mem
  BY DEF CopiedBlock
<1>3. ASSUME NEW k \in 1 .. m
      PROVE  CopiedBlock(mem, a, b, k) =
               [CopiedBlock(mem, a, b, k - 1) EXCEPT ![a + k - 1] = CopiedBlock(mem, a, b, k - 1)[b + k - 1]]
  <2>1. /\ a + k - 1 \in 0 .. M /\ b + k - 1 \in 0 .. M /\ k - 1 \in Nat
        /\ b + k - 1 \notin a .. a + (k - 1) - 1
    BY DEF Copyable
  <2>2. DOMAIN mem = 0 .. M
    OBVIOUS
  <2>3. CopiedBlock(mem, a, b, k - 1)[b + k - 1] = mem[b + k - 1]
    BY <2>1, <2>2 DEF CopiedBlock
  <2>4. ASSUME NEW x \in 0 .. M
        PROVE  CopiedBlock(mem, a, b, k)[x] =
                 IF x = a + k - 1 THEN mem[b + k - 1] ELSE CopiedBlock(mem, a, b, k - 1)[x]
    <3>1. CASE x = a + k - 1
      <4>1. x \in a .. a + k - 1 /\ b + x - a = b + k - 1
        BY <2>1, <3>1
      <4>. QED BY <2>2, <3>1, <4>1 DEF CopiedBlock
    <3>2. CASE x # a + k - 1
      <4>1. x \in a .. a + k - 1 <=> x \in a .. a + (k - 1) - 1
        BY <2>1, <3>2
      <4>. QED BY <2>2, <3>2, <4>1 DEF CopiedBlock
    <3>. QED BY <3>1, <3>2
  <2>. QED BY <2>1, <2>2, <2>3, <2>4 DEF CopiedBlock
<1>4. G = [k \in 0 .. m |-> Byte(G, k)]
  <2>1. \A k \in 0 .. m : k # 0 => k \in 1 .. m /\ k - 1 \in 0 .. m
    OBVIOUS
  <2>2. \A k \in 0 .. m : G[k] = Byte(G, k)
    BY <1>2, <1>3, <2>1
  <2>. QED BY <2>2
<1>. HIDE DEF G, Byte
<1>5. after = [k \in 0 .. m |-> Byte(after, k)]
  BY <1>4
<1>. HIDE DEF after
<1>. DEFINE T == {k \in 0 .. m : after[k] # G[k]}
<1>6. CASE T = {}
  <2>1. m \in 0 .. m
    OBVIOUS
  <2>2. after[m] = G[m]
    BY <1>6, <2>1
  <2>3. G[m] = CopiedBlock(mem, a, b, m)
    BY <2>1 DEF G
  <2>. QED BY <1>1, <2>2, <2>3
<1>7. CASE T # {}
  <2>1. PICK k \in T : \A j \in T : k <= j
    <3>1. T \in SUBSET Nat
      OBVIOUS
    <3>. HIDE DEF T
    <3>. QED BY <1>7, <3>1, LeastNat
  <2>2. after[k] = Byte(after, k) /\ G[k] = Byte(G, k)
    BY <1>4, <1>5, <2>1
  <2>3. CASE k = 0
    BY <2>1, <2>2, <2>3 DEF Byte
  <2>4. CASE k # 0
    <3>1. k - 1 \in 0 .. m /\ ~(k <= k - 1)
      BY <2>1, <2>4
    <3>2. after[k - 1] = G[k - 1]
      BY <2>1, <3>1
    <3>. QED BY <2>1, <2>2, <3>2 DEF Byte
  <2>. QED BY <2>3, <2>4
<1>. QED BY <1>6, <1>7

\* A copied block's bytes, and the others.
IsCopy(c, M, mem, a, b, m) ==
  /\ c \in [0 .. M -> Nat]
  /\ \A k \in 0 .. m - 1 : a + k \in 0 .. M /\ c[a + k] = mem[b + k]
  /\ \A x \in 0 .. M : x < a \/ x >= a + m => c[x] = mem[x]

LEMMA CopiedFacts ==
  ASSUME NEW M \in Nat, NEW mem \in [0 .. M -> Nat], NEW a \in Nat, NEW b \in Nat, NEW m \in Nat,
         Copyable(M, a, b, m)
  PROVE  IsCopy(CopiedBlock(mem, a, b, m), M, mem, a, b, m)
<1>1. DOMAIN mem = 0 .. M
  OBVIOUS
<1>2. \A x \in 0 .. M : x \in a .. a + m - 1 => b + x - a \in 0 .. M
  BY DEF Copyable
<1>3. \A k \in 0 .. m - 1 : a + k \in 0 .. M /\ a + k \in a .. a + m - 1 /\ b + (a + k) - a = b + k
  BY DEF Copyable
<1>4. \A x \in 0 .. M : x < a \/ x >= a + m => x \notin a .. a + m - 1
  OBVIOUS
<1>. QED BY <1>1, <1>2, <1>3, <1>4 DEF CopiedBlock, IsCopy

\* A string: bytes up to a zero.
HasLength(M, mem, a, l) ==
  /\ a + l \in 0 .. M /\ mem[a + l] = 0
  /\ \A k \in 0 .. l - 1 : a + k \in 0 .. M /\ mem[a + k] # 0

LEMMA StrlenIs ==
  ASSUME NEW M \in Nat, NEW mem \in [0 .. M -> Nat], NEW a \in Nat, NEW l \in Nat,
         HasLength(M, mem, a, l)
  PROVE  Strlen(mem, a) = l
<1>. DEFINE Z == {k \in DOMAIN mem : k >= a /\ mem[k] = 0}
<1>1. DOMAIN mem = 0 .. M /\ Z \in SUBSET Nat /\ a + l \in Z
  BY DEF HasLength
<1>2. PICK m : m = Min(Z) /\ m \in Z /\ \A k \in Z : m <= k
  <2>. HIDE DEF Z
  <2>. QED BY <1>1, MinIs
<1>3. Strlen(mem, a) = m - a
  BY <1>2 DEF Strlen
<1>4. m \in Nat /\ m >= a /\ mem[m] = 0 /\ m <= a + l
  BY <1>1, <1>2
<1>5. m - a \notin 0 .. l - 1
  <2>1. a + (m - a) = m
    BY <1>4
  <2>. QED BY <1>4, <2>1 DEF HasLength
<1>. QED BY <1>3, <1>4, <1>5

LEMMA LengthExists ==
  ASSUME NEW M \in Nat, NEW mem \in [0 .. M -> Nat], NEW a \in Nat,
         \E k \in 0 .. M : k >= a /\ mem[k] = 0
  PROVE  \E l \in Nat : HasLength(M, mem, a, l)
<1>. DEFINE Z == {k \in 0 .. M : k >= a /\ mem[k] = 0}
<1>1. PICK m \in Z : \A k \in Z : m <= k
  <2>1. Z \in SUBSET Nat /\ Z # {}
    OBVIOUS
  <2>. HIDE DEF Z
  <2>. QED BY <2>1, LeastNat
<1>2. m - a \in Nat /\ a + (m - a) = m /\ m \in 0 .. M /\ mem[m] = 0
  BY <1>1
<1>3. \A k \in 0 .. (m - a) - 1 : a + k \in 0 .. M /\ a + k >= a /\ ~(m <= a + k)
  BY <1>2
<1>4. \A k \in 0 .. (m - a) - 1 : mem[a + k] # 0
  BY <1>1, <1>3
<1>5. HasLength(M, mem, a, m - a)
  BY <1>2, <1>3, <1>4 DEF HasLength
<1>. QED BY <1>2, <1>5

\* The string at an address, as a sequence.
IsText(t, mem, a, l) ==
  /\ t \in Seq(Nat) /\ Len(t) = l
  /\ \A k \in 1 .. l : t[k] = mem[a + k - 1] /\ t[k] # 0

LEMMA StringInIs ==
  ASSUME NEW M \in Nat, NEW mem \in [0 .. M -> Nat], NEW a \in Nat, NEW l \in Nat,
         HasLength(M, mem, a, l)
  PROVE  IsText(StringIn(mem, a), mem, a, l)
<1>1. StringIn(mem, a) = [k \in 1 .. l |-> mem[a + k - 1]]
  BY StrlenIs, Zenon DEF StringIn
<1>2. ASSUME NEW k \in 1 .. l PROVE mem[a + k - 1] \in Nat /\ mem[a + k - 1] # 0
  <2>1. k - 1 \in 0 .. l - 1 /\ a + (k - 1) = a + k - 1
    OBVIOUS
  <2>. QED BY <2>1 DEF HasLength
<1>3. \A k \in 1 .. l : mem[a + k - 1] \in Nat
  BY <1>2
<1>4. [k \in 1 .. l |-> mem[a + k - 1]] \in Seq(Nat)
  BY <1>3
<1>5. Len([k \in 1 .. l |-> mem[a + k - 1]]) = l
  OBVIOUS
<1>6. \A k \in 1 .. l : StringIn(mem, a)[k] = mem[a + k - 1]
  BY <1>1
<1>. QED BY <1>1, <1>2, <1>4, <1>5, <1>6 DEF IsText

LEMMA StringBy ==
  ASSUME NEW M \in Nat, NEW mem \in [0 .. M -> Nat], NEW a \in Nat, NEW s, NEW l \in Nat,
         a + l \in 0 .. M, mem[a + l] = 0, IsText(s, mem, a, l)
  PROVE  StringIn(mem, a) = s
<1>1. \A k \in 0 .. l - 1 : a + k \in 0 .. M /\ mem[a + k] # 0
  <2>1. ASSUME NEW k \in 0 .. l - 1 PROVE a + k \in 0 .. M /\ mem[a + k] # 0
    <3>1. PICK j \in 1 .. l : a + j - 1 = a + k
      <4>1. k + 1 \in 1 .. l /\ a + (k + 1) - 1 = a + k
        OBVIOUS
      <4>. QED BY <4>1
    <3>2. mem[a + j - 1] # 0
      BY <3>1 DEF IsText
    <3>3. a + k \in 0 .. M
      OBVIOUS
    <3>. QED BY <3>1, <3>2, <3>3
  <2>. QED BY <2>1
<1>2. HasLength(M, mem, a, l)
  BY <1>1 DEF HasLength
<1>3. IsText(StringIn(mem, a), mem, a, l)
  BY <1>2, StringInIs
<1>. QED BY <1>3, SeqEqual DEF IsText

\* strcpy leaves the other string's bytes, and its zero.
LEMMA StrcpyIs ==
  ASSUME NEW M \in Nat, NEW mem \in [0 .. M -> Nat], NEW a \in Nat, NEW b \in Nat, NEW l \in Nat,
         HasLength(M, mem, b, l), a + l \in 0 .. M, Apart(a, l + 1, b, l + 1)
  PROVE  StringIn(Strcpy(mem, a, b), a) = StringIn(mem, b)
<1>1. b + l \in 0 .. M /\ mem[b + l] = 0 /\ \A k \in 0 .. l - 1 : b + k \in 0 .. M /\ mem[b + k] # 0
  BY DEF HasLength
<1>2. a + l + 1 <= b \/ b + l + 1 <= a
  BY DEF Apart
<1>. DEFINE c == CopiedBlock(mem, a, b, l)
<1>3. Copyable(M, a, b, l)
  BY <1>1, <1>2 DEF Copyable
<1>4. CopyUp(mem, a, b, l) = c
  BY <1>3, CopyUpIs
<1>5. /\ c \in [0 .. M -> Nat]
      /\ \A k \in 0 .. l - 1 : a + k \in 0 .. M /\ c[a + k] = mem[b + k]
      /\ \A x \in 0 .. M : x < a \/ x >= a + l => c[x] = mem[x]
  <2>1. IsCopy(c, M, mem, a, b, l)
    BY <1>3, CopiedFacts
  <2>. QED BY <2>1 DEF IsCopy
<1>. HIDE DEF c
<1>6. Strlen(c, b) = l /\ Strlen(mem, b) = l
  <2>1. \A k \in 0 .. l : b + k \in 0 .. M /\ (b + k < a \/ b + k >= a + l)
    BY <1>1, <1>2
  <2>2. \A k \in 0 .. l : c[b + k] = mem[b + k]
    BY <1>5, <2>1
  <2>3. l \in 0 .. l /\ \A k \in 0 .. l - 1 : k \in 0 .. l
    OBVIOUS
  <2>4. HasLength(M, c, b, l)
    BY <1>1, <2>2, <2>3 DEF HasLength
  <2>. QED BY <1>5, <2>4, StrlenIs
<1>. DEFINE d == [c EXCEPT ![a + l] = 0]
<1>7. Strcpy(mem, a, b) = d
  BY <1>4, <1>6 DEF Strcpy, Memcpy
<1>8. /\ d \in [0 .. M -> Nat] /\ d[a + l] = 0
      /\ \A k \in 0 .. l - 1 : d[a + k] = mem[b + k]
  <2>1. \A k \in 0 .. l - 1 : a + k # a + l
    OBVIOUS
  <2>. QED BY <1>5, <2>1
<1>. HIDE DEF d
<1>. DEFINE s == StringIn(mem, b)
<1>9. IsText(s, mem, b, l)
  BY StringInIs
<1>. HIDE DEF s
<1>10. \A k \in 1 .. l : s[k] = d[a + k - 1] /\ s[k] # 0
  <2>1. ASSUME NEW k \in 1 .. l PROVE s[k] = d[a + k - 1] /\ s[k] # 0
    <3>1. k - 1 \in 0 .. l - 1 /\ a + (k - 1) = a + k - 1 /\ b + (k - 1) = b + k - 1
      OBVIOUS
    <3>. QED BY <1>8, <1>9, <3>1 DEF IsText
  <2>. QED BY <2>1
<1>11. StringIn(d, a) = s
  <2>1. IsText(s, d, a, l)
    BY <1>9, <1>10 DEF IsText
  <2>. QED BY <1>8, <2>1, StringBy
<1>. QED BY <1>7, <1>11 DEF s

\* Strings of lengths l and m in a memory, and what a call of strncpy may be given.
Strings2(M, mem, a, l, b, m) ==
  /\ M \in Nat /\ mem \in [0 .. M -> Nat] /\ a \in Nat /\ b \in Nat
  /\ l \in Nat /\ HasLength(M, mem, a, l) /\ m \in Nat /\ HasLength(M, mem, b, m)
StrncpyArgs(M, mem, a, b, m, l) ==
  /\ M \in Nat /\ mem \in [0 .. M -> Nat] /\ a \in Nat /\ b \in Nat /\ m \in Nat
  /\ l \in Nat /\ HasLength(M, mem, b, l)
  /\ a + m \in 0 .. M /\ (m = 0 \/ b + m - 1 \in 0 .. M) /\ Apart(a, m + 1, b, m)

\* strncpy takes as many bytes as it is told to, ends them with a zero, and the
\* string ends where the other did when that is earlier.
LEMMA StrncpyIs ==
  ASSUME NEW M, NEW mem, NEW a, NEW b, NEW m, NEW l, StrncpyArgs(M, mem, a, b, m, l)
  PROVE  /\ StringIn(Strncpy(mem, a, b, m), a) = SubSeq(StringIn(mem, b), 1, IF l < m THEN l ELSE m)
         /\ \A x \in 0 .. M : x \notin a .. a + m => Strncpy(mem, a, b, m)[x] = mem[x]
<1>. /\ M \in Nat /\ mem \in [0 .. M -> Nat] /\ a \in Nat /\ b \in Nat /\ m \in Nat
     /\ l \in Nat /\ HasLength(M, mem, b, l)
     /\ a + m \in 0 .. M /\ (m = 0 \/ b + m - 1 \in 0 .. M) /\ Apart(a, m + 1, b, m)
  BY DEF StrncpyArgs
<1>. DEFINE c == CopiedBlock(mem, a, b, m)
            d == [c EXCEPT ![a + m] = 0]
            h == IF l < m THEN l ELSE m
            t == StringIn(mem, b)
            s == SubSeq(t, 1, h)
<1>1. mem[b + l] = 0
  BY DEF HasLength
<1>2. Copyable(M, a, b, m)
  BY DEF Apart, Copyable
<1>3. CopyUp(mem, a, b, m) = c
  BY <1>2, CopyUpIs
<1>4. /\ c \in [0 .. M -> Nat]
      /\ \A k \in 0 .. m - 1 : a + k \in 0 .. M /\ c[a + k] = mem[b + k]
      /\ \A x \in 0 .. M : x < a \/ x >= a + m => c[x] = mem[x]
  <2>1. IsCopy(c, M, mem, a, b, m)
    BY <1>2, CopiedFacts
  <2>. QED BY <2>1 DEF IsCopy
<1>5. Strncpy(mem, a, b, m) = d
  BY <1>3 DEF Strncpy, Memcpy
<1>. HIDE DEF c
<1>6. /\ d \in [0 .. M -> Nat] /\ d[a + m] = 0
      /\ \A k \in 0 .. m - 1 : d[a + k] = mem[b + k]
      /\ \A x \in 0 .. M : x \notin a .. a + m => d[x] = mem[x]
  <2>1. \A k \in 0 .. m - 1 : a + k # a + m
    OBVIOUS
  <2>2. \A x \in 0 .. M : x \notin a .. a + m => x # a + m /\ (x < a \/ x >= a + m)
    OBVIOUS
  <2>. QED BY <1>4, <2>1, <2>2
<1>. HIDE DEF d
<1>7. /\ t \in Seq(Nat) /\ Len(t) = l
      /\ \A k \in 1 .. l : t[k] = mem[b + k - 1] /\ t[k] # 0
  <2>1. IsText(t, mem, b, l)
    BY StringInIs
  <2>. QED BY <2>1 DEF IsText
<1>8. h \in Nat /\ h <= l /\ h <= m
  OBVIOUS
<1>9. d[a + h] = 0 /\ a + h \in 0 .. M
  <2>1. CASE l < m
    <3>1. l \in 0 .. m - 1 /\ h = l /\ a + l \in 0 .. M
      BY <2>1
    <3>. QED BY <1>1, <1>6, <3>1
  <2>2. CASE ~(l < m)
    BY <1>6, <2>2
  <2>. QED BY <2>1, <2>2
<1>. HIDE DEF t, h
<1>10. s \in Seq(Nat) /\ Len(s) = h /\ \A k \in 1 .. h : s[k] = t[k]
  <2>1. \A k \in 1 .. h : t[k] \in Nat
    <3>1. \A k \in 1 .. h : k \in 1 .. l
      BY <1>8
    <3>. QED BY <1>7, <3>1, ElementOfSeq
  <2>2. /\ SubSeq(t, 1, h) \in Seq(Nat)
        /\ Len(SubSeq(t, 1, h)) = IF 1 <= h THEN h - 1 + 1 ELSE 0
        /\ \A k \in 1 .. h - 1 + 1 : SubSeq(t, 1, h)[k] = t[1 + k - 1]
    BY <1>8, <2>1, SubSeqProperties
  <2>. QED BY <1>8, <2>2
<1>. HIDE DEF s
<1>11. \A k \in 1 .. h : s[k] = d[a + k - 1] /\ s[k] # 0
  <2>1. ASSUME NEW k \in 1 .. h PROVE s[k] = d[a + k - 1] /\ s[k] # 0
    <3>1. k - 1 \in 0 .. m - 1 /\ k \in 1 .. l /\ a + (k - 1) = a + k - 1 /\ b + (k - 1) = b + k - 1
      BY <1>8
    <3>. QED BY <1>6, <1>7, <1>10, <3>1
  <2>. QED BY <2>1
<1>12. StringIn(d, a) = s
  <2>1. IsText(s, d, a, h)
    BY <1>10, <1>11 DEF IsText
  <2>. QED BY <1>6, <1>8, <1>9, <2>1, StringBy
<1>. QED BY <1>5, <1>6, <1>12 DEF s, t, h

\* strcat finds the other string's zero although it has written over its own, and the
\* two strings are one.
LEMMA StrcatIs ==
  ASSUME NEW M, NEW mem, NEW a, NEW b, NEW n, NEW m, Strings2(M, mem, a, n, b, m),
         Apart(a, n + 1, b, m + 1), a + n + m \in 0 .. M
  PROVE  StringIn(Strcat(mem, a, b), a) = StringIn(mem, a) \o StringIn(mem, b)
<1>. /\ M \in Nat /\ mem \in [0 .. M -> Nat] /\ a \in Nat /\ b \in Nat
     /\ n \in Nat /\ HasLength(M, mem, a, n) /\ m \in Nat /\ HasLength(M, mem, b, m)
  BY DEF Strings2
<1>. DEFINE end == a + n
            Copy(k) == CopyUp(mem, end, b, k)
            Ends(k) == Copy(k)[b + k] = 0
            last == CHOOSE k \in DOMAIN mem : Ends(k) /\ \A j \in 0 .. k - 1 : ~Ends(j)
            d == Copy(m + 1)
<1>1. Strlen(mem, a) = n
  BY StrlenIs
<1>2. Strcat(mem, a, b) = Copy(last + 1)
  BY <1>1 DEF Strcat
<1>3. /\ b + m \in 0 .. M /\ mem[b + m] = 0
      /\ \A k \in 0 .. m - 1 : b + k \in 0 .. M /\ mem[b + k] # 0
  BY DEF HasLength
<1>4. end + 1 <= b \/ b + m + 1 <= a
  BY DEF Apart
<1>5. ASSUME NEW k \in 0 .. m + 1 PROVE IsCopy(Copy(k), M, mem, end, b, k)
  <2>1. Copyable(M, end, b, k)
    BY <1>3, <1>4, SMTT(30) DEF Copyable
  <2>2. end \in Nat /\ k \in Nat
    OBVIOUS
  <2>. HIDE DEF end
  <2>3. Copy(k) = CopiedBlock(mem, end, b, k)
    BY <2>1, <2>2, CopyUpIs
  <2>4. IsCopy(CopiedBlock(mem, end, b, k), M, mem, end, b, k)
    BY <2>1, <2>2, CopiedFacts
  <2>. QED BY <2>3, <2>4
<1>. HIDE DEF Copy
<1>6. ASSUME NEW k \in 0 .. m PROVE Ends(k) <=> k = m
  <2>1. k \in 0 .. m + 1 /\ b + k \in 0 .. M /\ (b + k < end \/ b + k >= end + k)
    BY <1>3, <1>4
  <2>2. Copy(k)[b + k] = mem[b + k]
    BY <1>5, <2>1 DEF IsCopy
  <2>3. k # m => k \in 0 .. m - 1
    OBVIOUS
  <2>. QED BY <1>3, <2>2, <2>3
<1>. HIDE DEF Ends
<1>7. last = m
  <2>1. m \in DOMAIN mem /\ m \in 0 .. m /\ \A j \in 0 .. m - 1 : j \in 0 .. m /\ j # m
    BY <1>3
  <2>2. Ends(m) /\ \A j \in 0 .. m - 1 : ~Ends(j)
    BY <1>6, <2>1
  <2>3. last \in DOMAIN mem /\ Ends(last) /\ \A j \in 0 .. last - 1 : ~Ends(j)
    BY <2>1, <2>2
  <2>. HIDE DEF last
  <2>4. last \in Nat
    BY <2>3
  <2>5. ~(m < last)
    BY <2>2, <2>3, <2>4
  <2>6. ~(last < m)
    BY <2>2, <2>3, <2>4
  <2>. QED BY <2>4, <2>5, <2>6
<1>8. /\ d \in [0 .. M -> Nat]
      /\ \A k \in 0 .. m : d[end + k] = mem[b + k]
      /\ \A x \in 0 .. M : x < end => d[x] = mem[x]
  <2>1. m + 1 \in 0 .. m + 1 /\ (m + 1) - 1 = m
    OBVIOUS
  <2>2. IsCopy(d, M, mem, end, b, m + 1)
    BY <1>5, <2>1
  <2>. HIDE DEF d, end
  <2>. QED BY <2>1, <2>2 DEF IsCopy
<1>. HIDE DEF d
<1>. DEFINE s == StringIn(mem, a)
            t == StringIn(mem, b)
<1>9. IsText(s, mem, a, n) /\ IsText(t, mem, b, m)
  BY StringInIs
<1>. HIDE DEF s, t
<1>10. /\ s \o t \in Seq(Nat) /\ Len(s \o t) = n + m
       /\ \A k \in 1 .. n + m : (s \o t)[k] = IF k <= n THEN s[k] ELSE t[k - n]
  <2>1. s \in Seq(Nat) /\ t \in Seq(Nat) /\ Len(s) = n /\ Len(t) = m
    BY <1>9 DEF IsText
  <2>2. /\ s \o t \in Seq(Nat) /\ Len(s \o t) = Len(s) + Len(t)
        /\ \A k \in 1 .. Len(s) + Len(t) : (s \o t)[k] = IF k <= Len(s) THEN s[k] ELSE t[k - Len(s)]
    BY <2>1, ConcatProperties
  <2>. QED BY <2>1, <2>2
<1>11. ASSUME NEW k \in 1 .. n + m
       PROVE  (s \o t)[k] = d[a + k - 1] /\ (s \o t)[k] # 0
  <2>1. CASE k <= n
    <3>1. k \in 1 .. n /\ a + k - 1 < end /\ a + k - 1 \in 0 .. M
      BY <2>1
    <3>. QED BY <1>8, <1>9, <1>10, <2>1, <3>1 DEF IsText
  <2>2. CASE k > n
    <3>1. PICK j \in 1 .. m : j = k - n
      BY <2>2
    <3>2. j - 1 \in 0 .. m /\ end + (j - 1) = a + k - 1 /\ b + (j - 1) = b + j - 1
      BY <3>1
    <3>3. d[a + k - 1] = mem[b + j - 1]
      BY <1>8, <3>2
    <3>4. (s \o t)[k] = t[j]
      <4>1. ~(k <= n)
        BY <2>2
      <4>. QED BY <1>10, <3>1, <4>1
    <3>5. t[j] = mem[b + j - 1] /\ t[j] # 0
      BY <1>9, <3>1 DEF IsText
    <3>. QED BY <3>3, <3>4, <3>5, Zenon
  <2>3. k <= n \/ k > n
    OBVIOUS
  <2>. QED BY <2>1, <2>2, <2>3, Zenon
<1>12. IsText(s \o t, d, a, n + m)
  BY <1>10, <1>11 DEF IsText
<1>13. a + (n + m) \in 0 .. M /\ d[a + (n + m)] = 0 /\ n + m \in Nat
  <2>1. m \in 0 .. m /\ end + m = a + (n + m)
    OBVIOUS
  <2>2. d[end + m] = 0
    BY <1>3, <1>8, <2>1
  <2>. QED BY <2>1, <2>2
<1>14. StringIn(d, a) = s \o t
  BY <1>8, <1>12, <1>13, StringBy
<1>. QED BY <1>2, <1>7, <1>14 DEF s, t, d

SameBytes(mem, a, g, b, h) == g = h /\ \A k \in 0 .. g - 1 : mem[a + k] = mem[b + k]

\* strncmp says "equal" of two strings exactly when their first n bytes, or all there
\* are, are the same.
LEMMA StrncmpIs ==
  ASSUME NEW M, NEW mem, NEW a, NEW b, NEW l, NEW m, Strings2(M, mem, a, l, b, m), NEW n \in Nat
  PROVE  (Strncmp(mem, a, b, n) = "equal") <=>
           SameBytes(mem, a, IF l < n THEN l ELSE n, b, IF m < n THEN m ELSE n)
<1>. /\ M \in Nat /\ mem \in [0 .. M -> Nat] /\ a \in Nat /\ b \in Nat
     /\ l \in Nat /\ HasLength(M, mem, a, l) /\ m \in Nat /\ HasLength(M, mem, b, m)
  BY DEF Strings2
<1>. DEFINE Same(k) == mem[a + k] # 0 /\ mem[a + k] = mem[b + k]
            Parted(k) == (\A j \in 0 .. k - 1 : Same(j)) /\ (k = n \/ ~Same(k))
            at == CHOOSE k \in 0 .. n : Parted(k)
            T == {k \in 0 .. n : k = n \/ ~Same(k)}
<1>1. /\ mem[a + l] = 0 /\ \A k \in 0 .. l - 1 : mem[a + k] # 0
      /\ mem[b + m] = 0 /\ \A k \in 0 .. m - 1 : mem[b + k] # 0
  BY DEF HasLength
<1>2. PICK c \in T : \A k \in T : c <= k
  <2>1. T \in SUBSET Nat /\ n \in T
    OBVIOUS
  <2>. HIDE DEF T
  <2>. QED BY <2>1, LeastNat
<1>3. c \in 0 .. n /\ Parted(c)
  <2>1. \A j \in 0 .. c - 1 : j \in 0 .. n /\ ~(c <= j)
    BY <1>2
  <2>. QED BY <1>2, <2>1
<1>4. at \in 0 .. n /\ Parted(at)
  <2>. HIDE DEF Parted
  <2>. QED BY <1>3
<1>5. (Strncmp(mem, a, b, n) = "equal") <=> (at = n \/ mem[a + at] = mem[b + at])
  BY DEF Strncmp
<1>. HIDE DEF at
<1>6. PICK e \in 0 .. n : e = at
  BY <1>4
<1>7. (\A j \in 0 .. e - 1 : mem[a + j] # 0 /\ mem[a + j] = mem[b + j]) /\ (e = n \/ ~Same(e))
  BY <1>4, <1>6
<1>8. e <= l /\ e <= m
  <2>1. ~(l < e)
    <3>1. l < e => l \in 0 .. e - 1
      BY <1>6
    <3>. QED BY <1>1, <1>7, <3>1
  <2>2. ~(m < e)
    <3>1. m < e => m \in 0 .. e - 1
      BY <1>6
    <3>. QED BY <1>1, <1>7, <3>1
  <2>. QED BY <1>6, <2>1, <2>2
<1>9. CASE e = n
  <2>1. (IF l < n THEN l ELSE n) = n /\ (IF m < n THEN m ELSE n) = n
    BY <1>8, <1>9
  <2>2. \A k \in 0 .. n - 1 : mem[a + k] = mem[b + k]
    BY <1>7, <1>9
  <2>3. Strncmp(mem, a, b, n) = "equal"
    BY <1>5, <1>6, <1>9
  <2>. QED BY <2>1, <2>2, <2>3 DEF SameBytes
<1>10. CASE e < n /\ mem[a + e] = mem[b + e]
  <2>1. mem[a + e] = 0 /\ mem[b + e] = 0
    BY <1>7, <1>10
  <2>2. l = e
    <3>1. e < l => e \in 0 .. l - 1
      BY <1>6
    <3>. QED BY <1>1, <1>6, <1>8, <2>1, <3>1
  <2>3. m = e
    <3>1. e < m => e \in 0 .. m - 1
      BY <1>6
    <3>. QED BY <1>1, <1>6, <1>8, <2>1, <3>1
  <2>. QED BY <1>5, <1>6, <1>7, <1>10, <2>2, <2>3 DEF SameBytes
<1>11. CASE e < n /\ mem[a + e] # mem[b + e]
  <2>1. SUFFICES ASSUME /\ (IF l < n THEN l ELSE n) = (IF m < n THEN m ELSE n)
                        /\ \A k \in 0 .. (IF l < n THEN l ELSE n) - 1 : mem[a + k] = mem[b + k]
                 PROVE  FALSE
    BY <1>5, <1>6, <1>11 DEF SameBytes
  <2>2. l <= e
    <3>1. e < l => e \in 0 .. (IF l < n THEN l ELSE n) - 1
      BY <1>6, <1>11
    <3>. QED BY <1>6, <1>11, <2>1, <3>1
  <2>3. l = e /\ m = e
    BY <1>6, <1>8, <1>11, <2>1, <2>2
  <2>. QED BY <1>1, <1>11, <2>3
<1>. QED BY <1>6, <1>9, <1>10, <1>11

\* Two strings' beginnings are the same when their bytes are.
LEMMA PrefixesAre ==
  ASSUME NEW M, NEW mem, NEW a, NEW b, NEW l, NEW m, Strings2(M, mem, a, l, b, m),
         NEW g \in 0 .. l, NEW h \in 0 .. m
  PROVE  (SubSeq(StringIn(mem, a), 1, g) = SubSeq(StringIn(mem, b), 1, h)) <=>
           SameBytes(mem, a, g, b, h)
<1>. /\ M \in Nat /\ mem \in [0 .. M -> Nat] /\ a \in Nat /\ b \in Nat
     /\ l \in Nat /\ HasLength(M, mem, a, l) /\ m \in Nat /\ HasLength(M, mem, b, m)
  BY DEF Strings2
<1>. DEFINE s == SubSeq(StringIn(mem, a), 1, g)
            t == SubSeq(StringIn(mem, b), 1, h)
<1>1. IsText(StringIn(mem, a), mem, a, l) /\ IsText(StringIn(mem, b), mem, b, m)
  BY StringInIs
<1>2. s \in Seq(Nat) /\ Len(s) = g /\ \A k \in 1 .. g : s[k] = mem[a + k - 1]
  <2>0. \A k \in 1 .. g : k \in 1 .. l
    OBVIOUS
  <2>1. g \in Int /\ \A k \in 1 .. g : StringIn(mem, a)[k] \in Nat
    BY <1>1, <2>0, ElementOfSeq DEF IsText
  <2>2. /\ s \in Seq(Nat) /\ Len(s) = IF 1 <= g THEN g - 1 + 1 ELSE 0
        /\ \A k \in 1 .. g - 1 + 1 : s[k] = StringIn(mem, a)[1 + k - 1]
    BY <2>1, SubSeqProperties
  <2>. QED BY <1>1, <2>0, <2>2 DEF IsText
<1>3. t \in Seq(Nat) /\ Len(t) = h /\ \A k \in 1 .. h : t[k] = mem[b + k - 1]
  <2>0. \A k \in 1 .. h : k \in 1 .. m
    OBVIOUS
  <2>1. h \in Int /\ \A k \in 1 .. h : StringIn(mem, b)[k] \in Nat
    BY <1>1, <2>0, ElementOfSeq DEF IsText
  <2>2. /\ t \in Seq(Nat) /\ Len(t) = IF 1 <= h THEN h - 1 + 1 ELSE 0
        /\ \A k \in 1 .. h - 1 + 1 : t[k] = StringIn(mem, b)[1 + k - 1]
    BY <2>1, SubSeqProperties
  <2>. QED BY <1>1, <2>0, <2>2 DEF IsText
<1>. HIDE DEF s, t
<1>4. (\A k \in 1 .. g : mem[a + k - 1] = mem[b + k - 1]) <=> (\A k \in 0 .. g - 1 : mem[a + k] = mem[b + k])
  <2>1. ASSUME \A k \in 1 .. g : mem[a + k - 1] = mem[b + k - 1], NEW k \in 0 .. g - 1
        PROVE  mem[a + k] = mem[b + k]
    <3>1. PICK j \in 1 .. g : a + j - 1 = a + k /\ b + j - 1 = b + k
      <4>1. k + 1 \in 1 .. g /\ a + (k + 1) - 1 = a + k /\ b + (k + 1) - 1 = b + k
        OBVIOUS
      <4>. QED BY <4>1
    <3>2. mem[a + j - 1] = mem[b + j - 1]
      BY <2>1
    <3>. QED BY <3>1, <3>2
  <2>2. ASSUME \A k \in 0 .. g - 1 : mem[a + k] = mem[b + k], NEW k \in 1 .. g
        PROVE  mem[a + k - 1] = mem[b + k - 1]
    <3>1. k - 1 \in 0 .. g - 1 /\ a + (k - 1) = a + k - 1 /\ b + (k - 1) = b + k - 1
      OBVIOUS
    <3>. QED BY <2>2, <3>1
  <2>. QED BY <2>1, <2>2, Zenon
<1>5. (s = t) <=> (g = h /\ \A k \in 1 .. g : mem[a + k - 1] = mem[b + k - 1])
  <2>1. ASSUME s = t PROVE g = h /\ \A k \in 1 .. g : mem[a + k - 1] = mem[b + k - 1]
    BY <1>2, <1>3, <2>1
  <2>2. ASSUME g = h, \A k \in 1 .. g : mem[a + k - 1] = mem[b + k - 1] PROVE s = t
    BY <1>2, <1>3, <2>2, SeqEqual
  <2>. QED BY <2>1, <2>2
<1>. QED BY <1>4, <1>5 DEF s, t, SameBytes

\* The bytes of a block, turned around: k of them at each end, and at last all of them.
Turned(mem, a, n, k) ==
  [x \in DOMAIN mem |->
     IF x \in a .. a + k - 1 \/ x \in a + n - k .. a + n - 1 THEN mem[a + n - 1 - (x - a)] ELSE mem[x]]

LEMMA ReversedIs ==
  ASSUME NEW M \in Nat, NEW mem \in [0 .. M -> Nat], NEW a \in Nat, NEW n \in Nat,
         n > 0, a + n - 1 \in 0 .. M
  PROVE  \A k \in 0 .. n - 1 : Reversed(mem, a, n)[a + k] = mem[a + n - 1 - k]
<1>. DEFINE h == n \div 2
            Swap(f, k) ==
              IF k = 0 THEN mem
              ELSE LET m == f[k - 1]
                   IN  [m EXCEPT ![a + k - 1] = m[a + n - k], ![a + n - k] = m[a + k - 1]]
            after == CHOOSE after : after = [k \in 0 .. h |-> Swap(after, k)]
            G == [k \in 0 .. h |-> Turned(mem, a, n, k)]
<1>1. Reversed(mem, a, n) = after[h]
  BY DEF Reversed
<1>2. h \in Nat /\ 2 * h <= n /\ n <= 2 * h + 1
  OBVIOUS
<1>3. DOMAIN mem = 0 .. M
  OBVIOUS
<1>4. Turned(mem, a, n, 0) = mem
  <2>1. \A x \in 0 .. M : x \notin a .. a + 0 - 1 /\ x \notin a + n - 0 .. a + n - 1
    OBVIOUS
  <2>. QED BY <1>3, <2>1 DEF Turned
<1>. HIDE DEF h
<1>5. ASSUME NEW k \in 1 .. h
      PROVE  LET m == Turned(mem, a, n, k - 1)
             IN  Turned(mem, a, n, k) = [m EXCEPT ![a + k - 1] = m[a + n - k], ![a + n - k] = m[a + k - 1]]
  <2>. DEFINE m == Turned(mem, a, n, k - 1)
  <2>1. /\ a + k - 1 \in 0 .. M /\ a + n - k \in 0 .. M /\ a + k - 1 < a + n - k
        /\ a + k - 1 \notin a .. a + (k - 1) - 1 /\ a + k - 1 \notin a + n - (k - 1) .. a + n - 1
        /\ a + n - k \notin a .. a + (k - 1) - 1 /\ a + n - k \notin a + n - (k - 1) .. a + n - 1
    BY <1>2
  <2>2. m[a + k - 1] = mem[a + k - 1] /\ m[a + n - k] = mem[a + n - k] /\ DOMAIN m = 0 .. M
    BY <1>3, <2>1 DEF Turned
  <2>3. ASSUME NEW x \in 0 .. M
        PROVE  Turned(mem, a, n, k)[x] =
                 IF x = a + n - k THEN mem[a + k - 1] ELSE IF x = a + k - 1 THEN mem[a + n - k] ELSE m[x]
    <3>1. CASE x = a + n - k
      <4>1. x \in a + n - k .. a + n - 1 /\ a + n - 1 - (x - a) = a + k - 1
        BY <1>2, <3>1
      <4>2. Turned(mem, a, n, k)[x] = mem[a + n - 1 - (x - a)]
        BY <1>3, <4>1 DEF Turned
      <4>. QED BY <3>1, <4>1, <4>2
    <3>2. CASE x = a + k - 1
      <4>1. x \in a .. a + k - 1 /\ a + n - 1 - (x - a) = a + n - k /\ x # a + n - k
        BY <1>2, <2>1, <3>2
      <4>2. Turned(mem, a, n, k)[x] = mem[a + n - 1 - (x - a)]
        BY <1>3, <4>1 DEF Turned
      <4>. QED BY <3>2, <4>1, <4>2
    <3>3. CASE x # a + n - k /\ x # a + k - 1
      <4>1. /\ x \in a .. a + k - 1 <=> x \in a .. a + (k - 1) - 1
            /\ x \in a + n - k .. a + n - 1 <=> x \in a + n - (k - 1) .. a + n - 1
        BY <1>2, <3>3
      <4>2. Turned(mem, a, n, k)[x] = m[x]
        BY <1>3, <4>1 DEF Turned
      <4>. QED BY <3>3, <4>2
    <3>. QED BY <3>1, <3>2, <3>3
  <2>4. DOMAIN Turned(mem, a, n, k) = 0 .. M /\ Turned(mem, a, n, k) = [x \in 0 .. M |-> Turned(mem, a, n, k)[x]]
    BY <1>3 DEF Turned
  <2>. HIDE DEF m
  <2>5. Turned(mem, a, n, k) = [m EXCEPT ![a + k - 1] = m[a + n - k], ![a + n - k] = m[a + k - 1]]
    BY <2>1, <2>2, <2>3, <2>4
  <2>. QED BY <2>5 DEF m
<1>6. G = [k \in 0 .. h |-> Swap(G, k)]
  <2>1. \A k \in 0 .. h : k # 0 => k \in 1 .. h /\ k - 1 \in 0 .. h
    BY <1>2
  <2>2. ASSUME NEW k \in 0 .. h PROVE Turned(mem, a, n, k) = Swap(G, k)
    <3>1. CASE k = 0
      BY <1>4, <3>1
    <3>2. CASE k # 0
      <4>1. k \in 1 .. h /\ k - 1 \in 0 .. h
        BY <2>1, <3>2
      <4>2. G[k - 1] = Turned(mem, a, n, k - 1)
        BY <4>1
      <4>. QED BY <1>5, <3>2, <4>1, <4>2
    <3>. QED BY <3>1, <3>2
  <2>. QED BY <2>2
<1>. HIDE DEF G, Swap
<1>7. after = [k \in 0 .. h |-> Swap(after, k)]
  BY <1>6
<1>. HIDE DEF after
<1>. DEFINE T == {k \in 0 .. h : after[k] # G[k]}
<1>8. T = {}
  <2>1. SUFFICES ASSUME T # {} PROVE FALSE
    OBVIOUS
  <2>2. PICK k \in T : \A j \in T : k <= j
    <3>1. T \in SUBSET Nat
      BY <1>2
    <3>. HIDE DEF T
    <3>. QED BY <2>1, <3>1, LeastNat
  <2>3. after[k] = Swap(after, k) /\ G[k] = Swap(G, k)
    BY <1>6, <1>7, <2>2
  <2>4. CASE k = 0
    BY <2>2, <2>3, <2>4 DEF Swap
  <2>5. CASE k # 0
    <3>1. k - 1 \in 0 .. h /\ ~(k <= k - 1)
      BY <1>2, <2>2, <2>5
    <3>2. after[k - 1] = G[k - 1]
      BY <2>2, <3>1
    <3>. QED BY <2>2, <2>3, <3>2 DEF Swap
  <2>. QED BY <2>4, <2>5
<1>9. Reversed(mem, a, n) = Turned(mem, a, n, h)
  <2>1. h \in 0 .. h
    BY <1>2
  <2>2. after[h] = G[h]
    BY <1>8, <2>1
  <2>. QED BY <1>1, <2>1, <2>2 DEF G
<1>10. ASSUME NEW k \in 0 .. n - 1 PROVE Turned(mem, a, n, h)[a + k] = mem[a + n - 1 - k]
  <2>1. a + k \in 0 .. M /\ a + n - 1 - ((a + k) - a) = a + n - 1 - k
    OBVIOUS
  <2>2. CASE a + k \in a .. a + h - 1 \/ a + k \in a + n - h .. a + n - 1
    BY <1>3, <2>1, <2>2 DEF Turned
  <2>3. CASE ~(a + k \in a .. a + h - 1 \/ a + k \in a + n - h .. a + n - 1)
    <3>1. a + n - 1 - k = a + k
      BY <1>2, <2>3
    <3>. QED BY <1>3, <2>1, <2>3, <3>1 DEF Turned
  <2>. QED BY <2>2, <2>3
<1>. QED BY <1>9, <1>10

\* The memories, and what the conditions on a call say of them.
LEMMA MemoryFacts ==
  ASSUME LibraryInv, ~done
  PROVE  /\ memory = before /\ Legal(call)
         /\ \E M \in Nat : before \in [0 .. M -> Nat]
         /\ call.a \in Nat /\ call.b \in Nat /\ call.n \in Nat
<1>1. before \in Memories /\ call \in Calls
  BY DEF LibraryInv
<1>2. Max(DOMAIN before) \in Nat /\ before \in [0 .. Max(DOMAIN before) -> Nat]
  BY <1>1, LibraryAssumption
<1>3. call \in [f : STRING, a : Nat, b : Nat, n : Nat]
  BY <1>1, LibraryAssumption
<1>. QED BY <1>2, <1>3 DEF LibraryInv

LEMMA StringStep ==
  ASSUME LibraryInv, StringCall
  PROVE  LibIsC'
<1>. DEFINE a == call.a
            b == call.b
            n == call.n
<1>1. ~done /\ done' /\ before' = before /\ call' = call
  BY DEF StringCall
<1>2. memory = before /\ Legal(call) /\ a \in Nat /\ b \in Nat /\ n \in Nat
  BY <1>1, MemoryFacts
<1>3. PICK M \in Nat : before \in [0 .. M -> Nat]
  BY <1>1, MemoryFacts
<1>4. DOMAIN before = 0 .. M
  BY <1>3
<1>. HIDE DEF a, b, n
<1>5. ASSUME NEW s \in Nat, IsString(s)
      PROVE  \E l \in Nat : HasLength(M, before, s, l) /\ Strlen(before, s) = l
  <2>1. \E k \in 0 .. M : k >= s /\ before[k] = 0
    BY <1>4, <1>5 DEF IsString
  <2>2. PICK l \in Nat : HasLength(M, before, s, l)
    BY <1>3, <2>1, LengthExists
  <2>3. Strlen(before, s) = l
    BY <1>3, <2>2, StrlenIs
  <2>. QED BY <2>2, <2>3
<1>6. CASE call.f \in {"memcpy", "memmove"}
  <2>1. memory' = CopyUp(before, a, b, n)
    BY <1>2, <1>6 DEF StringCall, Memcpy, Memmove, a, b, n
  <2>2. Copyable(M, a, b, n)
    <3>1. CASE call.f = "memcpy"
      <4>1. Fits(a, n) /\ Fits(b, n) /\ Apart(a, n, b, n)
        BY <1>2, <3>1 DEF Legal, a, b, n
      <4>. QED BY <1>2, <1>4, <4>1 DEF Fits, Apart, Copyable
    <3>2. CASE call.f = "memmove"
      <4>1. Fits(a, n) /\ Fits(b, n) /\ MemmoveReturns(a, b, n)
        BY <1>2, <3>2 DEF Legal, a, b, n
      <4>. QED BY <1>2, <1>4, <4>1 DEF Fits, MemmoveReturns, Copyable
    <3>. QED BY <1>6, <3>1, <3>2
  <2>3. memory' = CopiedBlock(before, a, b, n)
    BY <1>2, <1>3, <2>1, <2>2, CopyUpIs
  <2>. QED BY <1>1, <1>6, <2>3 DEF LibIsC, CopiedBlock, a, b, n
<1>7. CASE call.f = "strcpy"
  <2>1. memory' = Strcpy(before, a, b)
    BY <1>2, <1>7 DEF StringCall, a, b
  <2>2. IsString(b) /\ Fits(a, Strlen(before, b) + 1) /\ Apart(a, Strlen(before, b) + 1, b, Strlen(before, b) + 1)
    BY <1>2, <1>7 DEF Legal, a, b
  <2>3. PICK l \in Nat : HasLength(M, before, b, l) /\ Strlen(before, b) = l
    BY <1>2, <1>5, <2>2
  <2>4. a + l \in 0 .. M /\ Apart(a, l + 1, b, l + 1)
    BY <1>2, <1>4, <2>2, <2>3 DEF Fits
  <2>5. StringIn(memory', a) = StringIn(before, b)
    BY <1>2, <1>3, <2>1, <2>3, <2>4, StrcpyIs
  <2>. QED BY <1>1, <1>7, <2>5 DEF LibIsC, a, b
<1>8. CASE call.f = "strncpy"
  <2>1. memory' = Strncpy(before, a, b, n)
    BY <1>2, <1>8 DEF StringCall, a, b, n
  <2>2. Fits(a, n + 1) /\ Fits(b, n) /\ IsString(b) /\ Apart(a, n + 1, b, n)
    BY <1>2, <1>8 DEF Legal, a, b, n
  <2>3. PICK l \in Nat : HasLength(M, before, b, l) /\ Strlen(before, b) = l
    BY <1>2, <1>5, <2>2
  <2>4. a + n \in 0 .. M /\ (n = 0 \/ b + n - 1 \in 0 .. M)
    BY <1>2, <1>4, <2>2 DEF Fits
  <2>5. /\ StringIn(memory', a) = SubSeq(StringIn(before, b), 1, IF l < n THEN l ELSE n)
        /\ \A x \in 0 .. M : x \notin a .. a + n => memory'[x] = before[x]
    <3>1. /\ StringIn(Strncpy(before, a, b, n), a)
               = SubSeq(StringIn(before, b), 1, IF l < n THEN l ELSE n)
          /\ \A x \in 0 .. M : x \notin a .. a + n => Strncpy(before, a, b, n)[x] = before[x]
      <4>1. StrncpyArgs(M, before, a, b, n, l)
        BY <1>2, <1>3, <2>2, <2>3, <2>4 DEF StrncpyArgs
      <4>. QED BY <4>1, StrncpyIs
    <3>. QED BY <2>1, <3>1, Zenon
  <2>6. Len(StringIn(before, b)) = l
    BY <1>2, <1>3, <2>3, StringInIs DEF IsText
  <2>7. a + (n + 1) - 1 = a + n
    BY <1>2
  <2>. QED BY <1>1, <1>4, <1>8, <2>5, <2>6, <2>7 DEF LibIsC, a, b, n
<1>9. CASE call.f = "strcat"
  <2>1. memory' = Strcat(before, a, b)
    BY <1>2, <1>9 DEF StringCall, a, b
  <2>2. /\ IsString(a) /\ IsString(b)
        /\ Apart(a, Strlen(before, a) + 1, b, Strlen(before, b) + 1)
        /\ Fits(a, Strlen(before, a) + Strlen(before, b) + 1)
    BY <1>2, <1>9 DEF Legal, a, b
  <2>3. PICK l \in Nat : HasLength(M, before, a, l) /\ Strlen(before, a) = l
    BY <1>2, <1>5, <2>2
  <2>4. PICK m \in Nat : HasLength(M, before, b, m) /\ Strlen(before, b) = m
    BY <1>2, <1>5, <2>2
  <2>5. a + l + m \in 0 .. M /\ Apart(a, l + 1, b, m + 1)
    BY <1>2, <1>4, <2>2, <2>3, <2>4 DEF Fits
  <2>6. StringIn(memory', a) = StringIn(before, a) \o StringIn(before, b)
    <3>1. StringIn(Strcat(before, a, b), a) = StringIn(before, a) \o StringIn(before, b)
      <4>1. Strings2(M, before, a, l, b, m)
        BY <1>2, <1>3, <2>3, <2>4 DEF Strings2
      <4>. QED BY <2>5, <4>1, StrcatIs
    <3>. QED BY <2>1, <3>1, Zenon
  <2>. QED BY <1>1, <1>9, <2>6 DEF LibIsC, a, b
<1>10. CASE call.f = "strncmp"
  <2>1. IsString(a) /\ IsString(b)
    BY <1>2, <1>10 DEF Legal, a, b
  <2>2. PICK l \in Nat : HasLength(M, before, a, l) /\ Strlen(before, a) = l
    BY <1>2, <1>5, <2>1
  <2>3. PICK m \in Nat : HasLength(M, before, b, m) /\ Strlen(before, b) = m
    BY <1>2, <1>5, <2>1
  <2>. DEFINE g == IF l < n THEN l ELSE n
              h == IF m < n THEN m ELSE n
  <2>4. g \in 0 .. l /\ h \in 0 .. m
    BY <1>2
  <2>5. (Strncmp(before, a, b, n) = "equal") <=> SameBytes(before, a, g, b, h)
    <3>1. Strings2(M, before, a, l, b, m)
      BY <1>2, <1>3, <2>2, <2>3 DEF Strings2
    <3>. QED BY <1>2, <3>1, StrncmpIs
  <2>. HIDE DEF g, h
  <2>6. (SubSeq(StringIn(before, a), 1, g) = SubSeq(StringIn(before, b), 1, h)) <=> SameBytes(before, a, g, b, h)
    <3>1. Strings2(M, before, a, l, b, m)
      BY <1>2, <1>3, <2>2, <2>3 DEF Strings2
    <3>. QED BY <2>4, <3>1, PrefixesAre
  <2>7. Len(StringIn(before, a)) = l /\ Len(StringIn(before, b)) = m
    BY <1>2, <1>3, <2>2, <2>3, StringInIs DEF IsText
  <2>8. (Strncmp(before, a, b, n) = "equal") <=>
          (SubSeq(StringIn(before, a), 1, g) = SubSeq(StringIn(before, b), 1, h))
    BY <2>5, <2>6, Zenon
  <2>. QED BY <1>1, <1>10, <2>7, <2>8 DEF LibIsC, a, b, n, g, h
<1>11. CASE call.f = "reverse"
  <2>1. memory' = Reversed(before, a, n)
    BY <1>2, <1>11 DEF StringCall, a, n
  <2>2. Fits(a, n) /\ n > 0
    BY <1>2, <1>11 DEF Legal, a, n
  <2>3. a + n - 1 \in 0 .. M
    BY <1>2, <1>4, <2>2 DEF Fits
  <2>4. \A k \in 0 .. n - 1 : memory'[a + k] = before[a + n - 1 - k]
    <3>1. a \in Nat /\ n \in Nat /\ n > 0
      BY <1>2, <2>2
    <3>. HIDE DEF a, n
    <3>2. \A k \in 0 .. n - 1 : Reversed(before, a, n)[a + k] = before[a + n - 1 - k]
      BY <1>3, <2>3, <3>1, ReversedIs
    <3>. QED BY <2>1, <3>2, Zenon
  <2>. QED BY <1>1, <1>11, <2>4 DEF LibIsC, a, n
<1>12. CASE call.f = "memset"
  <2>1. memory' = [x \in 0 .. M |-> IF x \in a .. a + n - 1 THEN b ELSE before[x]]
    BY <1>2, <1>4, <1>12 DEF StringCall, Memset, a, b, n
  <2>2. Fits(a, n)
    BY <1>2, <1>12 DEF Legal, a, n
  <2>3. \A k \in a .. a + n - 1 : k \in 0 .. M
    BY <1>2, <1>4, <2>2 DEF Fits
  <2>4. /\ \A k \in 0 .. M : k \notin a .. a + n - 1 => memory'[k] = before[k]
        /\ \A k \in a .. a + n - 1 : memory'[k] = b
    BY <2>1, <2>3
  <2>. QED BY <1>1, <1>4, <1>12, <2>4 DEF LibIsC, a, b, n
<1>13. CASE call.f \notin {"memcpy", "memmove", "strcpy", "strncpy", "strcat", "strncmp", "reverse", "memset"}
  BY <1>1, <1>13 DEF LibIsC
<1>. QED BY <1>6, <1>7, <1>8, <1>9, <1>10, <1>11, <1>12, <1>13

-----------------------------------------------------------------------------
\* Recursion

\* A function whose value at s is made of that at D[s], of a lower rank, but at leaves.
Unfolds(f, S, Leaf, B, D, G) ==
  f = [s \in S |-> IF s \in Leaf THEN B[s] ELSE G[s][f[D[s]]]]

UnfoldsUpTo(f, S, Leaf, B, D, G, rank, n) ==
  \A s \in S : rank[s] < n => f[s] = IF s \in Leaf THEN B[s] ELSE G[s][f[D[s]]]

LEMMA RecursionUpTo ==
  ASSUME NEW S, NEW X, NEW Leaf, NEW B \in [S -> X], NEW D \in [S -> S], NEW G \in [S -> [X -> X]],
         NEW rank \in [S -> Nat], \A s \in S : s \notin Leaf => rank[D[s]] < rank[s],
         NEW n \in Nat
  PROVE  \E f \in [S -> X] : UnfoldsUpTo(f, S, Leaf, B, D, G, rank, n)
<1>. DEFINE Val(f, s) == IF s \in Leaf THEN B[s] ELSE G[s][f[D[s]]]
            Good(f, k) == \A s \in S : rank[s] < k => f[s] = Val(f, s)
            T == {k \in Nat : ~ \E f \in [S -> X] : Good(f, k)}
<1>1. SUFFICES ASSUME T # {} PROVE FALSE
  BY DEF UnfoldsUpTo
<1>2. PICK m \in T : \A k \in T : m <= k
  <2>1. T \in SUBSET Nat
    OBVIOUS
  <2>. HIDE DEF T
  <2>. QED BY <1>1, <2>1, LeastNat
<1>3. CASE m = 0
  <2>1. Good(B, 0)
    OBVIOUS
  <2>. QED BY <1>2, <1>3, <2>1
<1>4. CASE m > 0
  <2>1. m - 1 \in Nat /\ ~(m <= m - 1)
    BY <1>2, <1>4
  <2>2. PICK f \in [S -> X] : Good(f, m - 1)
    BY <1>2, <2>1
  <2>. DEFINE g == [s \in S |-> IF rank[s] < m - 1 THEN f[s] ELSE Val(f, s)]
  <2>3. \A s \in S : g[s] \in X
    OBVIOUS
  <2>4. \A s \in S : g[s] = Val(f, s) \/ ~(rank[s] < m)
    BY <2>1, <2>2
  <2>5. \A s \in S : rank[s] < m - 1 => g[s] = f[s]
    OBVIOUS
  <2>. HIDE DEF g
  <2>7. ASSUME NEW s \in S, rank[s] < m PROVE g[s] = Val(g, s)
    <3>1. CASE s \in Leaf
      BY <2>4, <2>7, <3>1
    <3>2. CASE s \notin Leaf
      <4>1. D[s] \in S /\ rank[D[s]] \in Nat /\ rank[s] \in Nat /\ rank[D[s]] < rank[s]
        BY <3>2
      <4>2. g[D[s]] = f[D[s]]
        BY <2>1, <2>5, <2>7, <4>1
      <4>. QED BY <2>4, <2>7, <4>2
    <3>. QED BY <3>1, <3>2
  <2>8. g \in [S -> X]
    <3>1. g = [s \in S |-> g[s]]
      BY DEF g
    <3>. QED BY <2>3, <3>1
  <2>. QED BY <1>2, <2>7, <2>8
<1>. QED BY <1>2, <1>3, <1>4

\* There is one, and it has values in X.
LEMMA Recursion ==
  ASSUME NEW S, NEW X, NEW Leaf, NEW B \in [S -> X], NEW D \in [S -> S], NEW G \in [S -> [X -> X]],
         NEW rank \in [S -> Nat], \A s \in S : s \notin Leaf => rank[D[s]] < rank[s]
  PROVE  \E f \in [S -> X] : Unfolds(f, S, Leaf, B, D, G)
<1>. DEFINE Val(f, s) == IF s \in Leaf THEN B[s] ELSE G[s][f[D[s]]]
            Good(f, k) == \A s \in S : rank[s] < k => f[s] = Val(f, s)
            upto == [k \in Nat |-> CHOOSE f \in [S -> X] : Good(f, k)]
<1>1. \A k \in Nat : upto[k] \in [S -> X] /\ Good(upto[k], k)
  <2>1. ASSUME NEW k \in Nat PROVE \E f \in [S -> X] : UnfoldsUpTo(f, S, Leaf, B, D, G, rank, k)
    BY RecursionUpTo
  <2>2. ASSUME NEW k \in Nat PROVE \E f \in [S -> X] : Good(f, k)
    BY <2>1 DEF UnfoldsUpTo
  <2>. HIDE DEF Good
  <2>. QED BY <2>2
<1>. HIDE DEF upto
<1>2. ASSUME NEW k \in Nat, NEW l \in Nat
      PROVE  \A s \in S : rank[s] < k /\ rank[s] < l => upto[k][s] = upto[l][s]
  <2>. DEFINE T == {rank[s] : s \in {t \in S : rank[t] < k /\ rank[t] < l /\ upto[k][t] # upto[l][t]}}
  <2>1. SUFFICES ASSUME T # {} PROVE FALSE
    OBVIOUS
  <2>2. PICK r \in T : \A q \in T : r <= q
    <3>1. T \in SUBSET Nat
      OBVIOUS
    <3>. HIDE DEF T
    <3>. QED BY <2>1, <3>1, LeastNat
  <2>3. PICK s \in S : rank[s] = r /\ r < k /\ r < l /\ upto[k][s] # upto[l][s]
    BY <2>2
  <2>4. upto[k][s] = Val(upto[k], s) /\ upto[l][s] = Val(upto[l], s)
    BY <1>1, <2>3
  <2>5. s \notin Leaf
    BY <2>3, <2>4
  <2>6. D[s] \in S /\ rank[D[s]] \in Nat /\ rank[s] \in Nat /\ rank[D[s]] < rank[s]
    BY <2>5
  <2>7. ~(r <= rank[D[s]])
    BY <2>3, <2>6
  <2>8. rank[D[s]] \notin T
    BY <2>2, <2>7
  <2>9. rank[D[s]] < k /\ rank[D[s]] < l
    BY <2>3, <2>6
  <2>10. upto[k][D[s]] = upto[l][D[s]]
    BY <2>6, <2>8, <2>9
  <2>. QED BY <2>3, <2>4, <2>5, <2>10
<1>. DEFINE f == [s \in S |-> upto[rank[s] + 1][s]]
<1>3. f \in [S -> X]
  BY <1>1
<1>4. ASSUME NEW s \in S PROVE f[s] = Val(f, s)
  <2>1. rank[s] \in Nat /\ rank[s] + 1 \in Nat /\ rank[s] < rank[s] + 1
    OBVIOUS
  <2>2. f[s] = Val(upto[rank[s] + 1], s)
    BY <1>1, <2>1
  <2>3. CASE s \in Leaf
    BY <2>2, <2>3
  <2>4. CASE s \notin Leaf
    <3>1. D[s] \in S /\ rank[D[s]] \in Nat /\ rank[D[s]] < rank[s]
      BY <2>4
    <3>2. rank[D[s]] + 1 \in Nat /\ rank[D[s]] < rank[D[s]] + 1 /\ rank[D[s]] < rank[s] + 1
      BY <2>1, <3>1
    <3>3. upto[rank[s] + 1][D[s]] = upto[rank[D[s]] + 1][D[s]]
      BY <1>2, <2>1, <3>1, <3>2
    <3>4. f[D[s]] = upto[rank[D[s]] + 1][D[s]]
      BY <3>1
    <3>. QED BY <2>2, <2>4, <3>3, <3>4
  <2>. QED BY <2>3, <2>4
<1>5. f = [s \in S |-> f[s]]
  OBVIOUS
<1>. HIDE DEF f
<1>6. Unfolds(f, S, Leaf, B, D, G)
  BY <1>4, <1>5 DEF Unfolds
<1>. QED BY <1>3, <1>6

-----------------------------------------------------------------------------
\* Numbers in a radix

Radix == {10, 16}

LEMMA DivIs ==
  ASSUME NEW v \in Nat, NEW r \in Radix
  PROVE  /\ r \in Nat /\ v \div r \in Nat /\ v % r \in 0 .. r - 1
         /\ v >= r => v \div r < v
         /\ v < r => v \div r = 0 /\ v % r = v
         /\ v = r * (v \div r) + (v % r)
         /\ F!Digit(v % r) \in Nat
<1>1. CASE r = 10
  BY <1>1 DEF F!Digit, F!Digit0
<1>2. CASE r = 16
  BY <1>2 DEF F!Digit, F!Digit0
<1>. QED BY <1>1, <1>2 DEF Radix

LEMMA RadixIs ==
  ASSUME NEW r \in Radix
  PROVE  \A v \in Nat :
           /\ F!InRadix(v, r) \in Seq(Nat)
           /\ F!InRadix(v, r) = (IF v < r THEN <<>> ELSE F!InRadix(v \div r, r)) \o <<F!Digit(v % r)>>
<1>. DEFINE X == Seq(Nat)
            Leaf == {v \in Nat : v < r}
            B == [v \in Nat |-> <<F!Digit(v % r)>>]
            D == [v \in Nat |-> v \div r]
            G == [v \in Nat |-> [x \in X |-> x \o <<F!Digit(v % r)>>]]
            Step(f) == [v \in Nat |-> (IF v < r THEN <<>> ELSE f[v \div r]) \o <<F!Digit(v % r)>>]
<1>1. \A v \in Nat : <<F!Digit(v % r)>> \in X
  BY DivIs
<1>2. D \in [Nat -> Nat] /\ \A v \in Nat : v \notin Leaf => D[v] < v
  BY DivIs DEF Radix
<1>3. B \in [Nat -> X]
  BY <1>1
<1>4. G \in [Nat -> [X -> X]]
  BY <1>1, ConcatProperties
<1>. DEFINE id == [v \in Nat |-> v]
<1>5. id \in [Nat -> Nat] /\ \A v \in Nat : id[v] = v
  OBVIOUS
<1>6. \E f \in [Nat -> X] : Unfolds(f, Nat, Leaf, B, D, G)
  <2>1. \A v \in Nat : v \notin Leaf => id[D[v]] < id[v]
    BY <1>2, <1>5
  <2>. HIDE DEF X, Leaf, B, D, G, id
  <2>. QED BY <1>2, <1>3, <1>4, <1>5, <2>1, Recursion
<1>7. PICK f \in [Nat -> X] : f = Step(f)
  <2>1. PICK f \in [Nat -> X] : Unfolds(f, Nat, Leaf, B, D, G)
    BY <1>6
  <2>2. ASSUME NEW v \in Nat PROVE f[v] = (IF v < r THEN <<>> ELSE f[v \div r]) \o <<F!Digit(v % r)>>
    <3>1. f[v] = IF v \in Leaf THEN B[v] ELSE G[v][f[D[v]]]
      BY <2>1 DEF Unfolds
    <3>2. v \div r \in Nat
      BY DivIs
    <3>3. f[v \div r] \in X
      BY <3>2
    <3>4. <<>> \o <<F!Digit(v % r)>> = <<F!Digit(v % r)>>
      BY <1>1
    <3>. QED BY <3>1, <3>3, <3>4
  <2>3. f = [v \in Nat |-> f[v]]
    OBVIOUS
  <2>. QED BY <2>2, <2>3
<1>. DEFINE places == CHOOSE g : g = Step(g)
<1>8. places = Step(places)
  <2>. HIDE DEF Step
  <2>. QED BY <1>7
<1>9. \A v : F!InRadix(v, r) = places[v]
  BY DEF F!InRadix
<1>10. \A v \in Nat : places[v] = (IF v < r THEN <<>> ELSE places[v \div r]) \o <<F!Digit(v % r)>>
  <2>. HIDE DEF places
  <2>. QED BY <1>8
<1>. HIDE DEF places
<1>11. \A v \in Nat : places[v] \in X
  <2>. DEFINE T == {v \in Nat : places[v] \notin X}
  <2>1. SUFFICES ASSUME T # {} PROVE FALSE
    OBVIOUS
  <2>2. PICK m \in T : \A k \in T : m <= k
    <3>1. T \in SUBSET Nat
      OBVIOUS
    <3>. HIDE DEF T
    <3>. QED BY <2>1, <3>1, LeastNat
  <2>3. m \in Nat /\ places[m] = (IF m < r THEN <<>> ELSE places[m \div r]) \o <<F!Digit(m % r)>>
    BY <1>10, <2>2
  <2>4. CASE m < r
    <3>1. places[m] = <<>> \o <<F!Digit(m % r)>>
      BY <2>3, <2>4
    <3>2. <<>> \o <<F!Digit(m % r)>> \in X
      BY <1>1, <2>3
    <3>. QED BY <2>2, <3>1, <3>2
  <2>5. CASE ~(m < r)
    <3>0. r \in Nat
      BY DEF Radix
    <3>1. m \div r \in Nat /\ ~(m <= m \div r)
      <4>1. m >= r
        BY <2>3, <2>5, <3>0
      <4>2. m \div r \in Nat /\ m \div r < m
        BY <2>3, <4>1, DivIs
      <4>. QED BY <2>3, <4>2
    <3>2. places[m \div r] \in X
      BY <2>2, <3>1
    <3>3. places[m] = places[m \div r] \o <<F!Digit(m % r)>>
      BY <2>3, <2>5
    <3>4. places[m] \in X
      BY <1>1, <2>3, <3>2, <3>3, ConcatProperties
    <3>. QED BY <2>2, <3>4
  <2>. QED BY <2>4, <2>5
<1>. QED BY <1>9, <1>10, <1>11

\* What itoa emits is the places, lowest first, and the sign of a %d behind them.
LEMMA ReverseIs ==
  ASSUME NEW s \in Seq(Nat)
  PROVE  /\ F!Reverse(s) \in Seq(Nat) /\ Len(F!Reverse(s)) = Len(s)
         /\ \A k \in 1 .. Len(s) : F!Reverse(s)[k] = s[Len(s) - k + 1]
BY DEF F!Reverse

LEMMA FromTheEnd ==
  \A a, b, c \in Nat : c \in 1 .. a + b /\ c > b =>
    /\ c - b \in 1 .. a /\ a + b - c + 1 \in 1 .. a
    /\ a - (c - b) + 1 = a + b - c + 1
OBVIOUS

LEMMA ReverseConcat ==
  ASSUME NEW s \in Seq(Nat), NEW t \in Seq(Nat)
  PROVE  F!Reverse(s \o t) = F!Reverse(t) \o F!Reverse(s)
<1>. DEFINE w == s \o t
            x == F!Reverse(s)
            y == F!Reverse(t)
            u == F!Reverse(w)
            v == y \o x
<1>1. w \in Seq(Nat) /\ Len(w) = Len(s) + Len(t)
  OBVIOUS
<1>2. /\ \A k \in 1 .. Len(s) : w[k] = s[k]
      /\ \A k \in 1 .. Len(t) : w[Len(s) + k] = t[k]
  OBVIOUS
<1>3. /\ x \in Seq(Nat) /\ Len(x) = Len(s) /\ \A k \in 1 .. Len(s) : x[k] = s[Len(s) - k + 1]
      /\ y \in Seq(Nat) /\ Len(y) = Len(t) /\ \A k \in 1 .. Len(t) : y[k] = t[Len(t) - k + 1]
  BY ReverseIs
<1>. HIDE DEF w, x, y
<1>4. u \in Seq(Nat) /\ Len(u) = Len(w) /\ \A k \in 1 .. Len(w) : u[k] = w[Len(w) - k + 1]
  BY <1>1, ReverseIs
<1>. HIDE DEF u
<1>5. v \in Seq(Nat) /\ Len(v) = Len(u)
  <2>1. y \o x \in Seq(Nat) /\ Len(y \o x) = Len(y) + Len(x)
    BY <1>3, ConcatProperties
  <2>. QED BY <1>1, <1>3, <1>4, <2>1
<1>6. ASSUME NEW k \in 1 .. Len(s) + Len(t)
      PROVE  v[k] = IF k <= Len(t) THEN y[k] ELSE x[k - Len(t)]
  <2>1. k \in 1 .. Len(y) + Len(x)
    BY <1>3
  <2>2. v[k] = IF k <= Len(y) THEN y[k] ELSE x[k - Len(y)]
    BY <1>3, <2>1, ConcatProperties
  <2>. QED BY <1>3, <2>2
<1>. HIDE DEF v
<1>7. ASSUME NEW k \in 1 .. Len(s) + Len(t) PROVE u[k] = v[k]
  <2>1. u[k] = w[Len(s) + Len(t) - k + 1]
    BY <1>1, <1>4
  <2>2. CASE k <= Len(t)
    <3>1. Len(t) - k + 1 \in 1 .. Len(t) /\ Len(s) + Len(t) - k + 1 = Len(s) + (Len(t) - k + 1)
      BY <2>2
    <3>2. v[k] = y[k] /\ k \in 1 .. Len(t)
      BY <1>6, <2>2
    <3>3. y[k] = t[Len(t) - k + 1]
      BY <1>3, <3>2, Zenon
    <3>4. w[Len(s) + (Len(t) - k + 1)] = t[Len(t) - k + 1]
      BY <1>2, <3>1, Zenon
    <3>. QED BY <2>1, <3>1, <3>2, <3>3, <3>4
  <2>3. CASE k > Len(t)
    <3>1. k - Len(t) \in 1 .. Len(s) /\ Len(s) + Len(t) - k + 1 \in 1 .. Len(s)
          /\ Len(s) - (k - Len(t)) + 1 = Len(s) + Len(t) - k + 1
      <4>1. Len(s) \in Nat /\ Len(t) \in Nat /\ k \in Nat
        OBVIOUS
      <4>. QED BY <2>3, <4>1, FromTheEnd, Zenon
    <3>2. v[k] = x[k - Len(t)]
      BY <1>6, <2>3
    <3>3. x[k - Len(t)] = s[Len(s) + Len(t) - k + 1]
      BY <1>3, <3>1
    <3>4. w[Len(s) + Len(t) - k + 1] = s[Len(s) + Len(t) - k + 1]
      BY <1>2, <3>1
    <3>. QED BY <2>1, <3>2, <3>3, <3>4, Zenon
  <2>4. k <= Len(t) \/ k > Len(t)
    OBVIOUS
  <2>. QED BY <2>2, <2>3, <2>4, Zenon
<1>8. u = v
  BY <1>1, <1>4, <1>5, <1>7
<1>. QED BY <1>8 DEF u, v, w, x, y

LEMMA ReverseTwice ==
  ASSUME NEW s \in Seq(Nat)
  PROVE  F!Reverse(F!Reverse(s)) = s
<1>1. F!Reverse(s) \in Seq(Nat) /\ Len(F!Reverse(s)) = Len(s)
  BY ReverseIs
<1>. DEFINE u == F!Reverse(F!Reverse(s))
<1>2. u \in Seq(Nat) /\ Len(u) = Len(s)
  BY <1>1, ReverseIs
<1>3. ASSUME NEW k \in 1 .. Len(s) PROVE u[k] = s[k]
  <2>1. Len(s) - k + 1 \in 1 .. Len(s) /\ Len(s) - (Len(s) - k + 1) + 1 = k
    OBVIOUS
  <2>2. u[k] = F!Reverse(s)[Len(s) - k + 1]
    BY <1>1, ReverseIs
  <2>. QED BY <2>1, <2>2, ReverseIs
<1>. HIDE DEF u
<1>4. u = s
  BY <1>2, <1>3
<1>. QED BY <1>4 DEF u

LEMMA ReverseOne ==
  /\ F!Reverse(<<>>) = <<>>
  /\ \A d \in Nat : F!Reverse(<<d>>) = <<d>>
BY DEF F!Reverse

LEMMA EmittedIs ==
  ASSUME NEW r \in Radix, NEW n \in Int
  PROVE  F!Emitted(n, r) = F!Reverse(F!InRadix(F!Abs(n), r))
<1>. DEFINE Step(f) == [v \in Nat |-> <<F!Digit(v % r)>> \o (IF v < r THEN <<>> ELSE f[v \div r])]
            g == [v \in Nat |-> F!Reverse(F!InRadix(v, r))]
            out == CHOOSE f : f = Step(f)
<1>1. ASSUME NEW v \in Nat
      PROVE  g[v] = <<F!Digit(v % r)>> \o (IF v < r THEN <<>> ELSE g[v \div r])
  <2>1. <<F!Digit(v % r)>> \in Seq(Nat) /\ F!Digit(v % r) \in Nat /\ v \div r \in Nat
    BY DivIs
  <2>2. CASE v < r
    <3>1. F!InRadix(v, r) = <<>> \o <<F!Digit(v % r)>>
      BY <2>2, RadixIs
    <3>2. F!InRadix(v, r) = <<F!Digit(v % r)>>
      BY <2>1, <3>1
    <3>3. g[v] = <<F!Digit(v % r)>>
      BY <2>1, <3>2, ReverseOne
    <3>4. <<F!Digit(v % r)>> \o <<>> = <<F!Digit(v % r)>>
      BY <2>1
    <3>. QED BY <2>2, <3>3, <3>4
  <2>3. CASE ~(v < r)
    <3>1. F!InRadix(v, r) = F!InRadix(v \div r, r) \o <<F!Digit(v % r)>> /\ F!InRadix(v \div r, r) \in Seq(Nat)
      BY <2>1, <2>3, RadixIs
    <3>2. F!Reverse(F!InRadix(v, r)) = F!Reverse(<<F!Digit(v % r)>>) \o F!Reverse(F!InRadix(v \div r, r))
      BY <2>1, <3>1, ReverseConcat
    <3>. QED BY <2>1, <2>3, <3>2, ReverseOne
  <2>. QED BY <2>2, <2>3
<1>2. g = Step(g)
  <2>1. g = [v \in Nat |-> g[v]]
    OBVIOUS
  <2>. HIDE DEF g
  <2>. QED BY <1>1, <2>1
<1>3. out = Step(out)
  <2>. HIDE DEF Step, g
  <2>. QED BY <1>2
<1>4. F!Abs(n) \in Nat /\ F!Emitted(n, r) = out[F!Abs(n)]
  BY DEF F!Emitted, F!Abs
<1>. DEFINE T == {v \in Nat : out[v] # g[v]}
<1>5. T = {}
  <2>1. SUFFICES ASSUME T # {} PROVE FALSE
    OBVIOUS
  <2>. HIDE DEF out, g
  <2>2. PICK m \in T : \A k \in T : m <= k
    <3>1. T \in SUBSET Nat
      OBVIOUS
    <3>. HIDE DEF T
    <3>. QED BY <2>1, <3>1, LeastNat
  <2>3. /\ out[m] = <<F!Digit(m % r)>> \o (IF m < r THEN <<>> ELSE out[m \div r])
        /\ g[m] = <<F!Digit(m % r)>> \o (IF m < r THEN <<>> ELSE g[m \div r])
        /\ m \in Nat /\ out[m] # g[m]
    BY <1>1, <1>3, <2>2
  <2>4. ~(m < r) /\ out[m \div r] # g[m \div r]
    BY <2>3
  <2>5. m >= r
    BY <2>3, <2>4 DEF Radix
  <2>6. m \div r \in Nat /\ m \div r < m
    BY <2>3, <2>5, DivIs
  <2>7. m \div r \in T /\ ~(m <= m \div r)
    BY <2>3, <2>4, <2>6
  <2>. QED BY <2>2, <2>7
<1>. QED BY <1>4, <1>5

LEMMA ItoaIs ==
  ASSUME NEW n \in Int
  PROVE  /\ F!Abs(n) \in Nat
         /\ F!Itoa(n, 16) = F!InRadix(F!Abs(n), 16)
         /\ F!Itoa(n, 10) = (IF n < 0 THEN <<F!Minus>> ELSE <<>>) \o F!InRadix(F!Abs(n), 10)
<1>1. F!Abs(n) \in Nat
  BY DEF F!Abs
<1>2. ASSUME NEW r \in Radix, NEW t \in {<<>>, <<F!Minus>>}
      PROVE  F!Reverse(F!Emitted(n, r) \o t) = t \o F!InRadix(F!Abs(n), r)
  <2>. DEFINE x == F!InRadix(F!Abs(n), r)
  <2>0. t \in Seq(Nat)
    <3>1. <<>> \in Seq(Nat) /\ <<45>> \in Seq(Nat)
      OBVIOUS
    <3>. QED BY <3>1, Zenon DEF F!Minus
  <2>1. x \in Seq(Nat) /\ t \in Seq(Nat)
    BY <1>1, <2>0, RadixIs
  <2>. HIDE DEF x
  <2>2. F!Emitted(n, r) = F!Reverse(x) /\ F!Reverse(x) \in Seq(Nat)
    BY <2>1, EmittedIs, ReverseIs DEF x
  <2>3. F!Reverse(t) = t
    BY ReverseOne DEF F!Minus
  <2>4. F!Reverse(F!Reverse(x) \o t) = F!Reverse(t) \o F!Reverse(F!Reverse(x))
    BY <2>1, <2>2, ReverseConcat
  <2>. QED BY <2>1, <2>2, <2>3, <2>4, ReverseTwice DEF x
<1>3. 10 \in Radix /\ 16 \in Radix
  BY DEF Radix
<1>4. F!Itoa(n, 16) = <<>> \o F!InRadix(F!Abs(n), 16)
  BY <1>2, <1>3 DEF F!Itoa
<1>5. F!Itoa(n, 10) = (IF n < 0 THEN <<F!Minus>> ELSE <<>>) \o F!InRadix(F!Abs(n), 10)
  BY <1>2, <1>3 DEF F!Itoa
<1>6. F!InRadix(F!Abs(n), 16) \in Seq(Nat)
  BY <1>1, <1>3, RadixIs
<1>. QED BY <1>1, <1>4, <1>5, <1>6

\* The character at j places from the last one, zeros in front.
Place(s, j) == IF j < Len(s) THEN s[Len(s) - j] ELSE F!Digit0

LEMMA PlaceIs ==
  ASSUME NEW v \in Nat
  PROVE  /\ Place(F!InRadix(v, 16), 0) = F!Digit(v % 16)
         /\ \A j \in Nat : Place(F!InRadix(v, 16), j + 1) = Place(F!InRadix(v \div 16, 16), j)
<1>1. 16 \in Radix
  BY DEF Radix
<1>. DEFINE d == F!Digit(v % 16)
            q == v \div 16
            x == F!InRadix(v, 16)
            y == F!InRadix(q, 16)
<1>2. q \in Nat /\ d \in Nat
  BY <1>1, DivIs
<1>3. y \in Seq(Nat) /\ x = (IF v < 16 THEN <<>> ELSE y) \o <<d>>
  BY <1>1, <1>2, RadixIs
<1>4. CASE v < 16
  <2>1. q = 0
    BY <1>1, <1>4, DivIs
  <2>2. y = (IF q < 16 THEN <<>> ELSE F!InRadix(q \div 16, 16)) \o <<F!Digit(q % 16)>>
    BY <1>1, <1>2, RadixIs
  <2>3. q < 16 /\ F!Digit(q % 16) = 48
    BY <2>1 DEF F!Digit, F!Digit0
  <2>. HIDE DEF x, y, d, q
  <2>4. x = <<d>> /\ y = <<48>>
    BY <1>2, <1>3, <1>4, <2>2, <2>3
  <2>5. Place(x, 0) = d /\ \A j \in Nat : Place(x, j + 1) = 48
    BY <1>2, <2>4 DEF Place, F!Digit0
  <2>6. \A j \in Nat : Place(y, j) = 48
    BY <2>4 DEF Place, F!Digit0
  <2>. QED BY <2>5, <2>6 DEF x, y, d, q
<1>5. CASE ~(v < 16)
  <2>. HIDE DEF x, y, d, q
  <2>1. x = y \o <<d>>
    BY <1>3, <1>5
  <2>2. Len(x) = Len(y) + 1 /\ x[Len(x)] = d /\ \A k \in 1 .. Len(y) : x[k] = y[k]
    BY <1>2, <1>3, <2>1
  <2>3. Len(y) \in Nat
    BY <1>3
  <2>4. Place(x, 0) = d
    BY <2>2, <2>3 DEF Place
  <2>5. ASSUME NEW j \in Nat PROVE Place(x, j + 1) = Place(y, j)
    <3>1. CASE j < Len(y)
      <4>1. Len(x) - (j + 1) = Len(y) - j /\ Len(y) - j \in 1 .. Len(y) /\ j + 1 < Len(x)
        BY <2>2, <2>3, <3>1
      <4>. QED BY <2>2, <3>1, <4>1 DEF Place
    <3>2. CASE ~(j < Len(y))
      BY <2>2, <2>3, <3>2 DEF Place
    <3>. QED BY <3>1, <3>2
  <2>. QED BY <2>4, <2>5 DEF x, y, d, q
<1>. QED BY <1>4, <1>5

\* The least number that a smaller one is printed like: they have the same last digit, and
\* what is left of them is smaller.
LEMMA PlacesDiffer ==
  ASSUME NEW v \in Nat, NEW u \in Nat, v < u
  PROVE  \E j \in Nat : Place(F!InRadix(v, 16), j) # Place(F!InRadix(u, 16), j)
<1>. DEFINE Like(a, b) == \A j \in Nat : Place(F!InRadix(a, 16), j) = Place(F!InRadix(b, 16), j)
            T == {b \in Nat : \E a \in Nat : a < b /\ Like(a, b)}
<1>1. SUFFICES ASSUME T # {} PROVE FALSE
  OBVIOUS
<1>2. PICK b \in T : \A k \in T : b <= k
  <2>1. T \in SUBSET Nat
    OBVIOUS
  <2>. HIDE DEF T
  <2>. QED BY <1>1, <2>1, LeastNat
<1>3. PICK a \in Nat : a < b /\ Like(a, b)
  BY <1>2
<1>4. F!Digit(a % 16) = F!Digit(b % 16)
  <2>1. 0 \in Nat
    OBVIOUS
  <2>2. Place(F!InRadix(a, 16), 0) = Place(F!InRadix(b, 16), 0)
    BY <1>3, <2>1
  <2>. QED BY <1>2, <2>2, PlaceIs
<1>5. a % 16 = b % 16
  BY <1>2, <1>4 DEF F!Digit, F!Digit0
<1>6. a \div 16 \in Nat /\ b \div 16 \in Nat /\ a \div 16 < b \div 16 /\ ~(b <= b \div 16)
  BY <1>2, <1>3, <1>5
<1>7. Like(a \div 16, b \div 16)
  <2>1. ASSUME NEW j \in Nat
        PROVE  Place(F!InRadix(a \div 16, 16), j) = Place(F!InRadix(b \div 16, 16), j)
    <3>1. Place(F!InRadix(a, 16), j + 1) = Place(F!InRadix(b, 16), j + 1)
      BY <1>3
    <3>. QED BY <1>2, <3>1, PlaceIs
  <2>. QED BY <2>1
<1>. HIDE DEF Like
<1>8. b \div 16 \in T
  BY <1>6, <1>7
<1>. QED BY <1>2, <1>6, <1>8

\* A smaller number is not longer.
LEMMA LengthRises ==
  ASSUME NEW v \in Nat, NEW u \in Nat, v < u
  PROVE  Len(F!InRadix(v, 16)) <= Len(F!InRadix(u, 16))
<1>. DEFINE L(a) == Len(F!InRadix(a, 16))
            T == {b \in Nat : \E a \in Nat : a < b /\ ~(L(a) <= L(b))}
<1>1. SUFFICES ASSUME T # {} PROVE FALSE
  OBVIOUS
<1>2. PICK b \in T : \A k \in T : b <= k
  <2>1. T \in SUBSET Nat
    OBVIOUS
  <2>. HIDE DEF T
  <2>. QED BY <1>1, <2>1, LeastNat
<1>3. PICK a \in Nat : a < b /\ ~(L(a) <= L(b))
  BY <1>2
<1>4. ASSUME NEW c \in Nat
      PROVE  /\ L(c) \in Nat /\ c \div 16 \in Nat
             /\ L(c) = IF c < 16 THEN 1 ELSE L(c \div 16) + 1
  <2>1. 16 \in Radix
    BY DEF Radix
  <2>. DEFINE d == F!Digit(c % 16)
              y == F!InRadix(c \div 16, 16)
              x == F!InRadix(c, 16)
  <2>2. d \in Nat /\ c \div 16 \in Nat
    BY <2>1, DivIs
  <2>3. x \in Seq(Nat) /\ y \in Seq(Nat) /\ x = (IF c < 16 THEN <<>> ELSE y) \o <<d>>
    BY <2>1, <2>2, RadixIs
  <2>. HIDE DEF d, y, x
  <2>4. Len(x) = IF c < 16 THEN 1 ELSE Len(y) + 1
    BY <2>2, <2>3
  <2>. QED BY <2>2, <2>3, <2>4 DEF x, y
<1>. HIDE DEF L
<1>5. ~(a < 16)
  <2>1. L(b) >= 1
    <3>1. L(b \div 16) \in Nat
      BY <1>2, <1>4
    <3>. QED BY <1>2, <1>4, <3>1
  <2>2. a < 16 => L(a) = 1
    BY <1>4
  <2>. QED BY <1>2, <1>3, <1>4, <2>1, <2>2
<1>6. ~(b < 16) /\ a \div 16 <= b \div 16 /\ ~(b <= b \div 16)
  BY <1>2, <1>3, <1>5
<1>7. a \div 16 \in Nat /\ b \div 16 \in Nat /\ L(a) = L(a \div 16) + 1 /\ L(b) = L(b \div 16) + 1
  BY <1>2, <1>4, <1>5, <1>6
<1>8. L(a \div 16) \in Nat /\ L(b \div 16) \in Nat
  BY <1>4, <1>7
<1>9. ~(L(a \div 16) <= L(b \div 16))
  BY <1>3, <1>7, <1>8
<1>10. a \div 16 < b \div 16
  <2>1. a \div 16 # b \div 16
    BY <1>8, <1>9
  <2>. QED BY <1>6, <1>7, <2>1
<1>11. b \div 16 \in T
  BY <1>7, <1>9, <1>10
<1>. QED BY <1>2, <1>6, <1>11

LEMMA PaddedIs ==
  ASSUME NEW s \in Seq(Nat), NEW w \in Nat
  PROVE  /\ F!Padded(s, w) \in Seq(Nat)
         /\ Len(F!Padded(s, w)) = IF w > Len(s) THEN w ELSE Len(s)
         /\ \A j \in Nat : Place(F!Padded(s, w), j) = Place(s, j)
<1>. DEFINE n == IF w > Len(s) THEN w - Len(s) ELSE 0
            z == [k \in 1 .. w - Len(s) |-> 48]
            t == z \o s
<1>1. Len(s) \in Nat /\ n \in Nat /\ 1 .. w - Len(s) = 1 .. n
  OBVIOUS
<1>2. z \in Seq(Nat) /\ Len(z) = n /\ \A k \in 1 .. n : z[k] = 48
  <2>1. z = [k \in 1 .. n |-> 48]
    BY <1>1
  <2>. HIDE DEF n, z
  <2>2. z \in Seq(Nat) /\ DOMAIN z = 1 .. n
    BY <1>1, <2>1
  <2>3. Len(z) = n
    BY <1>1, <2>2
  <2>. QED BY <2>1, <2>2, <2>3
<1>3. F!Padded(s, w) = t
  BY DEF F!Padded, F!Digit0
<1>. HIDE DEF z
<1>4. t \in Seq(Nat) /\ Len(t) = n + Len(s)
  BY <1>2, ConcatProperties
<1>5. ASSUME NEW k \in 1 .. n + Len(s) PROVE t[k] = IF k <= n THEN 48 ELSE s[k - n]
  <2>. HIDE DEF n
  <2>1. t[k] = IF k <= Len(z) THEN z[k] ELSE s[k - Len(z)]
    <3>1. z \in Seq(Nat) /\ k \in 1 .. Len(z) + Len(s)
      BY <1>2, <1>5
    <3>. QED BY <3>1, ConcatProperties DEF t
  <2>2. k <= n => z[k] = 48
    BY <1>1, <1>2, <1>5
  <2>. QED BY <1>2, <2>1, <2>2
<1>. HIDE DEF t
<1>6. ASSUME NEW j \in Nat PROVE Place(t, j) = Place(s, j)
  <2>1. CASE j < Len(s)
    <3>1. Len(t) - j \in 1 .. n + Len(s) /\ ~(Len(t) - j <= n) /\ Len(t) - j - n = Len(s) - j /\ j < Len(t)
      BY <1>1, <1>4, <2>1
    <3>. QED BY <1>5, <2>1, <3>1 DEF Place
  <2>2. CASE ~(j < Len(s)) /\ j < Len(t)
    <3>1. Len(t) - j \in 1 .. n + Len(s) /\ Len(t) - j <= n
      BY <1>1, <1>4, <2>2
    <3>. QED BY <1>5, <2>2, <3>1 DEF Place, F!Digit0
  <2>3. CASE ~(j < Len(s)) /\ ~(j < Len(t))
    BY <2>3 DEF Place
  <2>4. j < Len(s) => j < Len(t)
    BY <1>1, <1>4
  <2>. QED BY <2>1, <2>2, <2>3, <2>4
<1>. QED BY <1>1, <1>3, <1>4, <1>6

\* Of two numbers the smaller one is printed shorter, or differently, with the same width.
LEMMA HexDiffers ==
  ASSUME NEW v \in Nat, NEW u \in Nat, NEW w \in Nat, v < u
  PROVE  /\ Len(F!Padded(F!InRadix(v, 16), w)) <= Len(F!Padded(F!InRadix(u, 16), w))
         /\ F!Padded(F!InRadix(v, 16), w) # F!Padded(F!InRadix(u, 16), w)
<1>. DEFINE x == F!InRadix(v, 16)
            y == F!InRadix(u, 16)
<1>1. x \in Seq(Nat) /\ y \in Seq(Nat)
  BY RadixIs DEF Radix
<1>2. Len(x) <= Len(y) /\ \E j \in Nat : Place(x, j) # Place(y, j)
  BY LengthRises, PlacesDiffer
<1>. HIDE DEF x, y
<1>3. /\ Len(F!Padded(x, w)) = IF w > Len(x) THEN w ELSE Len(x)
      /\ \A j \in Nat : Place(F!Padded(x, w), j) = Place(x, j)
  BY <1>1, PaddedIs
<1>4. /\ Len(F!Padded(y, w)) = IF w > Len(y) THEN w ELSE Len(y)
      /\ \A j \in Nat : Place(F!Padded(y, w), j) = Place(y, j)
  BY <1>1, PaddedIs
<1>5. Len(x) \in Nat /\ Len(y) \in Nat
  BY <1>1
<1>. QED BY <1>2, <1>3, <1>4, <1>5 DEF x, y

-----------------------------------------------------------------------------
\* Words and ints

LEMMA PowerIs ==
  ASSUME NEW n \in Nat
  PROVE  2 ^ n \in Nat \ {0} /\ 2 ^ (n + 1) = 2 * 2 ^ n
<1>. DEFINE A == 1 .. n
            x == n + 1
            S == SUBSET A
            Y == {b \cup {x} : b \in S}
            f == [b \in S |-> b \cup {x}]
<1>1. IsFiniteSet(A) /\ Cardinality(A) = n
  BY FS_Interval
<1>2. IsFiniteSet(S) /\ Cardinality(S) = 2 ^ n /\ Cardinality(S) \in Nat
  BY <1>1, FS_SUBSET, FS_CardinalityType
<1>3. x \notin A
  OBVIOUS
<1>4. ExistsBijection(S, Y)
  <2>1. \A b, c \in S : b \cup {x} = c \cup {x} => b = c
    BY <1>3
  <2>2. f \in [S -> Y] /\ (\A b \in S : f[b] = b \cup {x}) /\ \A y \in Y : \E b \in S : f[b] = y
    OBVIOUS
  <2>. HIDE DEF S, Y, f, x
  <2>3. f \in Injection(S, Y) /\ f \in Surjection(S, Y)
    BY <2>1, <2>2 DEF Injection, IsInjective, Surjection
  <2>. QED BY <2>3 DEF ExistsBijection, Bijection
<1>5. IsFiniteSet(Y) /\ Cardinality(Y) = Cardinality(S)
  BY <1>2, <1>4, FS_Bijection
<1>6. S \cap Y = {}
  BY <1>3
<1>7. SUBSET (1 .. n + 1) = S \cup Y
  <2>1. 1 .. n + 1 = A \cup {x}
    OBVIOUS
  <2>2. ASSUME NEW b \in SUBSET (A \cup {x}) PROVE b \in S \cup Y
    <3>1. CASE x \in b
      <4>1. b \ {x} \in S /\ b = (b \ {x}) \cup {x}
        BY <3>1
      <4>. QED BY <4>1
    <3>2. CASE x \notin b
      BY <3>2
    <3>. QED BY <3>1, <3>2
  <2>3. S \cup Y \subseteq SUBSET (A \cup {x})
    OBVIOUS
  <2>. HIDE DEF A, S, Y
  <2>. QED BY <2>1, <2>2, <2>3
<1>8. IsFiniteSet(1 .. n + 1) /\ Cardinality(1 .. n + 1) = n + 1
  BY FS_Interval
<1>9. Cardinality(SUBSET (1 .. n + 1)) = 2 ^ (n + 1)
  BY <1>8, FS_SUBSET
<1>10. Cardinality(S \cup Y) = Cardinality(S) + Cardinality(Y) - Cardinality(S \cap Y)
  <2>. HIDE DEF S, Y
  <2>. QED BY <1>2, <1>5, FS_Union
<1>11. Cardinality({}) = 0
  BY FS_EmptySet
<1>12. 2 ^ n # 0
  <2>1. {} \in S
    OBVIOUS
  <2>. HIDE DEF S
  <2>. QED BY <1>2, <2>1, FS_EmptySet
<1>. HIDE DEF S, Y
<1>13. Cardinality(S \cup Y) = Cardinality(S) + Cardinality(S)
  <2>1. Cardinality(S \cap Y) = 0
    BY <1>6, <1>11, Zenon
  <2>2. Cardinality(S \cup Y) = Cardinality(S) + Cardinality(S) - 0
    BY <1>5, <1>10, <2>1, Zenon
  <2>. QED BY <1>2, <2>2
<1>14. 2 ^ (n + 1) = 2 ^ n + 2 ^ n
  BY <1>2, <1>7, <1>9, <1>13
<1>15. 2 ^ n \in Nat
  BY <1>2
<1>16. \A a \in Nat : a + a = 2 * a
  OBVIOUS
<1>. QED BY <1>12, <1>14, <1>15, <1>16

\* A word that fits in an int, or is its least number, is printed as it is; any other one
\* becomes a number that is nearer to zero.
LEMMA AsIntIs ==
  ASSUME NEW word \in Nat
  PROVE  /\ F!AsInt(word) \in Int
         /\ word <= 2 ^ (IntBits - 1) => F!Abs(F!AsInt(word)) = word
         /\ word > 2 ^ (IntBits - 1) => F!Abs(F!AsInt(word)) < word
<1>. DEFINE h == 2 ^ (IntBits - 1)
            m == 2 ^ IntBits
<1>1. IntBits - 1 \in Nat /\ IntBits = (IntBits - 1) + 1
  BY LibraryAssumption DEF F!FormatAssumption
<1>2. h \in Nat \ {0} /\ m = 2 * h
  BY <1>1, PowerIs
<1>3. F!AsInt(word) = LET low == word % m IN IF low < h THEN low ELSE low - m
  BY DEF F!AsInt
<1>. HIDE DEF h, m
<1>4. m \in Nat /\ m > 0
  BY <1>2
<1>5. word % m \in 0 .. m - 1 /\ (word < m => word % m = word)
  BY <1>4
<1>. DEFINE low == word % m
<1>6. low \in Nat /\ low < m /\ low <= word /\ (word < m => low = word)
  <2>1. word < m \/ low <= word
    BY <1>4, <1>5
  <2>. QED BY <1>4, <1>5, <2>1
<1>. HIDE DEF low
<1>7. CASE low < h
  <2>1. F!AsInt(word) = low /\ F!Abs(low) = low
    BY <1>3, <1>6, <1>7 DEF F!Abs, low
  <2>. QED BY <1>2, <1>6, <1>7, <2>1 DEF h
<1>8. CASE ~(low < h)
  <2>1. F!AsInt(word) = low - m /\ F!Abs(low - m) = m - low
    BY <1>2, <1>3, <1>6, <1>8 DEF F!Abs, low
  <2>. QED BY <1>2, <1>6, <1>8, <2>1 DEF h
<1>. QED BY <1>7, <1>8

-----------------------------------------------------------------------------
\* The format

LEMMA Associative == \A x, y, z \in Seq(Nat) : x \o (y \o z) = (x \o y) \o z
<1>. SUFFICES ASSUME NEW x \in Seq(Nat), NEW y \in Seq(Nat), NEW z \in Seq(Nat)
              PROVE  x \o (y \o z) = (x \o y) \o z
  OBVIOUS
<1>. QED BY SMTT(30)

\* A text that is no longer than another.
NoLonger(a, b) == a \in Seq(Nat) /\ b \in Seq(Nat) /\ Len(a) <= Len(b)

\* Put behind texts that are no longer than others, they are no longer, and the same text
\* only if all are.
Concatenated(a, b, c, d) ==
  NoLonger(a \o c, b \o d) /\ (a \o c = b \o d <=> a = b /\ c = d)

LEMMA ConcatSame ==
  ASSUME NEW a, NEW b, NEW c, NEW d, NoLonger(a, b), NoLonger(c, d)
  PROVE  Concatenated(a, b, c, d)
<1>1. ASSUME NEW s \in Seq(Nat), NEW t \in Seq(Nat), NEW u \in Seq(Nat), NEW v \in Seq(Nat),
             Len(s) <= Len(t), Len(u) <= Len(v)
      PROVE  Concatenated(s, t, u, v)
  <2>1. /\ s \o u \in Seq(Nat) /\ Len(s \o u) = Len(s) + Len(u)
        /\ t \o v \in Seq(Nat) /\ Len(t \o v) = Len(t) + Len(v)
    OBVIOUS
  <2>2. Len(s) \in Nat /\ Len(t) \in Nat /\ Len(u) \in Nat /\ Len(v) \in Nat
    OBVIOUS
  <2>3. ASSUME s \o u = t \o v PROVE s = t /\ u = v
    <3>1. Len(s) = Len(t) /\ Len(u) = Len(v)
      BY <1>1, <2>1, <2>2, <2>3
    <3>2. ASSUME NEW k \in 1 .. Len(s) PROVE s[k] = t[k]
      <4>1. (s \o u)[k] = s[k] /\ (t \o v)[k] = t[k]
        BY <3>1
      <4>. QED BY <2>3, <4>1
    <3>3. ASSUME NEW k \in 1 .. Len(u) PROVE u[k] = v[k]
      <4>1. (s \o u)[Len(s) + k] = u[k]
        OBVIOUS
      <4>2. k \in 1 .. Len(v)
        BY <3>1
      <4>3. (t \o v)[Len(t) + k] = v[k]
        BY <4>2
      <4>. QED BY <2>3, <3>1, <4>1, <4>3
    <3>4. s = t
      BY <3>1, <3>2, SeqEqual
    <3>5. u = v
      BY <3>1, <3>3, SeqEqual
    <3>. QED BY <3>4, <3>5
  <2>4. Len(s \o u) <= Len(t \o v)
    BY <1>1, <2>1, <2>2
  <2>5. s = t /\ u = v => s \o u = t \o v
    OBVIOUS
  <2>. QED BY <2>1, <2>3, <2>4, <2>5 DEF NoLonger, Concatenated
<1>2. /\ a \in Seq(Nat) /\ b \in Seq(Nat) /\ c \in Seq(Nat) /\ d \in Seq(Nat)
      /\ Len(a) <= Len(b) /\ Len(c) <= Len(d)
  BY DEF NoLonger
<1>. QED BY <1>1, <1>2

LEMMA NoDigits ==
  /\ \A c \in {115, 100, 120, 99} : c \notin F!Digits /\ c # F!Percent
  /\ \A c \in F!Digits : c # F!Percent
BY DEF F!Percent, F!Digits, F!Digit0

\* The letter of a directive is the one character there is that ends it.
LEMMA LetterIs ==
  ASSUME F!IsFormat(format, args), NEW k \in 1 .. Len(format), format[k] = F!Percent
  PROVE  /\ F!Letter(k) \in k + 1 .. Len(format)
         /\ format[F!Letter(k)] \in {115, 100, 120, 99}
         /\ \A m \in k + 1 .. F!Letter(k) - 1 : format[m] \in F!Digits
         /\ F!Letter(k) > k + 1 => format[k + 1] = F!Digit0 /\ format[F!Letter(k)] = 120
<1>1. Len(format) \in Nat /\ DOMAIN format = 1 .. Len(format)
  BY DEF F!IsFormat
<1>2. PICK l \in k + 1 .. Len(format) :
        /\ format[l] \in {115, 100, 120, 99} /\ \A m \in k + 1 .. l - 1 : format[m] \in F!Digits
        /\ l > k + 1 => format[k + 1] = F!Digit0 /\ format[l] = 120
  <2>1. k \in DOMAIN format
    BY <1>1
  <2>2. \A j \in DOMAIN format : format[j] = F!Percent =>
          \E l \in j + 1 .. Len(format) :
            /\ format[l] \in {115, 100, 120, 99} /\ \A m \in j + 1 .. l - 1 : format[m] \in F!Digits
            /\ l > j + 1 => format[j + 1] = F!Digit0 /\ format[l] = 120
    BY Zenon DEF F!IsFormat
  <2>. QED BY <2>1, <2>2
<1>. DEFINE Ends(e) == format[e] \notin F!Digits /\ \A m \in k + 1 .. e - 1 : format[m] \in F!Digits
<1>3. {115, 100, 120, 99} \cap F!Digits = {}
  BY DEF F!Digits, F!Digit0
<1>4. Ends(l)
  BY <1>2, <1>3
<1>5. F!Letter(k) = CHOOSE e \in k + 1 .. Len(format) : Ends(e)
  BY DEF F!Letter
<1>6. F!Letter(k) \in k + 1 .. Len(format) /\ Ends(F!Letter(k))
  <2>. HIDE DEF Ends
  <2>. QED BY <1>2, <1>4, <1>5
<1>7. F!Letter(k) = l
  <2>1. ~(F!Letter(k) < l)
    <3>1. F!Letter(k) < l => F!Letter(k) \in k + 1 .. l - 1
      BY <1>6
    <3>. QED BY <1>2, <1>6, <3>1
  <2>2. ~(l < F!Letter(k))
    <3>1. l < F!Letter(k) => l \in k + 1 .. F!Letter(k) - 1
      BY <1>6
    <3>. QED BY <1>4, <1>6, <3>1
  <2>. QED BY <1>6, <2>1, <2>2
<1>. QED BY <1>2, <1>7

\* There is an argument for every directive.
LEMMA CardinalityIs == \A S : F!Cardinality(S) = Cardinality(S)
BY DEF F!Cardinality, Cardinality

LEMMA ArgumentIs ==
  ASSUME F!IsFormat(format, args)
  PROVE  /\ F!Percents(0) = {} /\ Cardinality({}) = 0
         /\ \A k \in 1 .. Len(format) :
              /\ F!Percents(k) = F!Percents(k - 1) \cup (IF format[k] = F!Percent THEN {k} ELSE {})
              /\ Cardinality(F!Percents(k)) =
                   Cardinality(F!Percents(k - 1)) + (IF format[k] = F!Percent THEN 1 ELSE 0)
              /\ Cardinality(F!Percents(k - 1)) \in Nat
              /\ Cardinality(F!Percents(k)) <= Len(args)
<1>1. Len(format) \in Nat /\ DOMAIN format = 1 .. Len(format)
  BY DEF F!IsFormat
<1>2. F!Percents(0) = {} /\ Cardinality({}) = 0
  BY FS_EmptySet DEF F!Percents
<1>3. ASSUME NEW k \in 0 .. Len(format)
      PROVE  IsFiniteSet(F!Percents(k)) /\ Cardinality(F!Percents(k)) \in Nat
  <2>1. IsFiniteSet(1 .. k)
    BY FS_Interval
  <2>2. F!Percents(k) \subseteq 1 .. k
    BY DEF F!Percents
  <2>3. IsFiniteSet(F!Percents(k))
    BY <2>1, <2>2, FS_Subset
  <2>. QED BY <2>3, FS_CardinalityType
<1>4. ASSUME NEW k \in 1 .. Len(format)
      PROVE  /\ F!Percents(k) = F!Percents(k - 1) \cup (IF format[k] = F!Percent THEN {k} ELSE {})
             /\ Cardinality(F!Percents(k)) =
                  Cardinality(F!Percents(k - 1)) + (IF format[k] = F!Percent THEN 1 ELSE 0)
             /\ Cardinality(F!Percents(k - 1)) \in Nat
             /\ Cardinality(F!Percents(k)) <= Len(args)
  <2>1. 1 .. k = (1 .. k - 1) \cup {k} /\ k \notin 1 .. k - 1 /\ k - 1 \in 0 .. Len(format)
    BY <1>1
  <2>2. F!Percents(k) = F!Percents(k - 1) \cup (IF format[k] = F!Percent THEN {k} ELSE {})
    BY <2>1 DEF F!Percents
  <2>3. k \notin F!Percents(k - 1)
    BY <2>1 DEF F!Percents
  <2>4. IsFiniteSet(F!Percents(k - 1)) /\ Cardinality(F!Percents(k - 1)) \in Nat
    BY <1>3, <2>1
  <2>5. Cardinality(F!Percents(k)) =
          Cardinality(F!Percents(k - 1)) + (IF format[k] = F!Percent THEN 1 ELSE 0)
    <3>1. CASE format[k] = F!Percent
      <4>1. Cardinality(F!Percents(k - 1) \cup {k}) = Cardinality(F!Percents(k - 1)) + 1
        BY <2>3, <2>4, FS_AddElement
      <4>. QED BY <2>2, <3>1, <4>1
    <3>2. CASE format[k] # F!Percent
      <4>1. F!Percents(k) = F!Percents(k - 1)
        BY <2>2, <3>2
      <4>. QED BY <2>4, <3>2, <4>1
    <3>. QED BY <3>1, <3>2
  <2>6. Cardinality(F!Percents(k)) <= Len(args)
    <3>1. F!Percents(k) \subseteq F!Percents(Len(format))
      BY <1>1 DEF F!Percents
    <3>2. Cardinality(F!Percents(Len(format))) <= Len(args)
      <4>1. F!Percents(Len(format)) = {m \in DOMAIN format : format[m] = F!Percent}
        BY <1>1 DEF F!Percents
      <4>2. F!Cardinality({m \in DOMAIN format : format[m] = F!Percent}) <= Len(args)
        BY Zenon DEF F!IsFormat
      <4>. QED BY <4>1, <4>2, CardinalityIs, Zenon
    <3>3. IsFiniteSet(F!Percents(Len(format))) /\ Cardinality(F!Percents(Len(format))) \in Nat
      BY <1>1, <1>3
    <3>4. Cardinality(F!Percents(k)) <= Cardinality(F!Percents(Len(format)))
      BY <3>1, <3>3, FS_Subset
    <3>5. Cardinality(F!Percents(k)) \in Nat /\ Len(args) \in Nat
      BY <1>1, <1>3 DEF F!IsFormat
    <3>. QED BY <3>2, <3>3, <3>4, <3>5
  <2>. QED BY <2>2, <2>4, <2>5, <2>6
<1>. QED BY <1>2, <1>4

LEMMA NumberIs ==
  ASSUME F!IsFormat(format, args), NEW k \in 1 .. Len(format)
  PROVE  /\ F!NumberAt(k, k) = 0
         /\ \A m \in k + 1 .. Len(format) :
              F!NumberAt(k, m) = 10 * F!NumberAt(k, m - 1) + format[m] - F!Digit0
<1>. DEFINE S == k .. Len(format)
            Leaf == {k}
            B == [m \in S |-> 0]
            D == [m \in S |-> IF m = k THEN k ELSE m - 1]
            G == [m \in S |-> [x \in Int |-> 10 * x + format[m] - F!Digit0]]
            rank == [m \in S |-> m - k]
            Step(f) == [m \in S |-> IF m = k THEN 0 ELSE 10 * f[m - 1] + format[m] - F!Digit0]
<1>1. Len(format) \in Nat /\ k \in Nat /\ \A m \in S : m \in 1 .. Len(format) /\ format[m] \in Nat
  BY DEF F!IsFormat
<1>2. B \in [S -> Int] /\ D \in [S -> S] /\ rank \in [S -> Nat]
  BY <1>1
<1>3. G \in [S -> [Int -> Int]]
  <2>1. \A m \in S, x \in Int : 10 * x + format[m] - F!Digit0 \in Int
    BY <1>1 DEF F!Digit0
  <2>. QED BY <2>1
<1>4. \A m \in S : m \notin Leaf => rank[D[m]] < rank[m]
  BY <1>1
<1>5. PICK f \in [S -> Int] : Unfolds(f, S, Leaf, B, D, G)
  <2>. HIDE DEF S, Leaf, B, D, G, rank
  <2>. QED BY <1>2, <1>3, <1>4, Recursion
<1>6. f = Step(f)
  <2>1. ASSUME NEW m \in S PROVE f[m] = IF m = k THEN 0 ELSE 10 * f[m - 1] + format[m] - F!Digit0
    <3>1. f[m] = IF m \in Leaf THEN B[m] ELSE G[m][f[D[m]]]
      BY <1>5 DEF Unfolds
    <3>2. D[m] \in S /\ f[D[m]] \in Int
      BY <1>2
    <3>. QED BY <3>1, <3>2
  <2>2. f = [m \in S |-> f[m]]
    OBVIOUS
  <2>. QED BY <2>1, <2>2
<1>. DEFINE number == CHOOSE g : g = Step(g)
<1>7. number = Step(number)
  <2>. HIDE DEF Step
  <2>. QED BY <1>6
<1>8. \A m : F!NumberAt(k, m) = number[m]
  BY DEF F!NumberAt
<1>. HIDE DEF number
<1>9. \A m \in S : number[m] = IF m = k THEN 0 ELSE 10 * number[m - 1] + format[m] - F!Digit0
  BY <1>7
<1>10. k \in S /\ \A m \in k + 1 .. Len(format) : m \in S /\ m # k
  BY <1>1
<1>. HIDE DEF S
<1>. QED BY <1>8, <1>9, <1>10

LEMMA NumberNat ==
  ASSUME F!IsFormat(format, args), NEW k \in 1 .. Len(format), format[k] = F!Percent
  PROVE  \A l \in k .. F!Letter(k) - 1 : F!NumberAt(k, l) \in Nat
<1>1. /\ F!Letter(k) \in k + 1 .. Len(format) /\ Len(format) \in Nat
      /\ \A m \in k + 1 .. F!Letter(k) - 1 : format[m] \in F!Digits
  <2>1. Len(format) \in Nat
    BY DEF F!IsFormat
  <2>. QED BY <2>1, LetterIs
<1>. DEFINE T == {l \in k .. F!Letter(k) - 1 : F!NumberAt(k, l) \notin Nat}
<1>2. SUFFICES ASSUME T # {} PROVE FALSE
  OBVIOUS
<1>3. PICK l \in T : \A m \in T : l <= m
  <2>1. T \in SUBSET Nat
    BY <1>1
  <2>. HIDE DEF T
  <2>. QED BY <1>2, <2>1, LeastNat
<1>4. l # k
  BY <1>3, NumberIs
<1>5. l - 1 \in k .. F!Letter(k) - 1 /\ l \in k + 1 .. F!Letter(k) - 1 /\ l \in k + 1 .. Len(format) /\ ~(l <= l - 1)
  BY <1>1, <1>3, <1>4
<1>6. F!NumberAt(k, l - 1) \in Nat
  BY <1>3, <1>5
<1>7. F!NumberAt(k, l) = 10 * F!NumberAt(k, l - 1) + format[l] - F!Digit0
  BY <1>5, NumberIs
<1>8. format[l] \in 48 .. 57
  BY <1>1, <1>5 DEF F!Digits, F!Digit0
<1>9. F!NumberAt(k, l) \in Nat
  <2>1. \A x \in Nat, c \in 48 .. 57 : 10 * x + c - 48 \in Nat
    OBVIOUS
  <2>. QED BY <1>6, <1>7, <1>8, <2>1 DEF F!Digit0
<1>. QED BY <1>3, <1>9

\* The argument of a directive is a word, and what is written for it a text.
LEMMA WrittenIs ==
  ASSUME F!IsFormat(format, args), NEW k \in 1 .. Len(format), format[k] = F!Percent
  PROVE  /\ F!Argument(k) = args[Cardinality(F!Percents(k - 1)) + 1]
         /\ Cardinality(F!Percents(k - 1)) + 1 <= Len(args)
         /\ F!Argument(k) \in Nat /\ StringAt[F!Argument(k)] \in Seq(Nat)
         /\ F!Written(k) \in Seq(Nat)
<1>. DEFINE a == Cardinality(F!Percents(k - 1)) + 1
            word == F!Argument(k)
            letter == format[F!Letter(k)]
<1>1. a \in Nat \ {0} /\ Cardinality(F!Percents(k)) = a /\ a <= Len(args)
  BY ArgumentIs
<1>2. F!Argument(k) = args[a]
  BY <1>1, CardinalityIs DEF F!Argument
<1>3. word \in DOMAIN StringAt
  <2>1. args \in Seq(DOMAIN StringAt)
    BY Zenon DEF F!IsFormat
  <2>. HIDE DEF a
  <2>2. a \in 1 .. Len(args)
    BY <1>1, <2>1
  <2>. QED BY <1>2, <2>1, <2>2
<1>4. DOMAIN StringAt \subseteq Nat /\ \A w \in DOMAIN StringAt : StringAt[w] \in Seq(Nat)
  <2>1. DOMAIN StringAt \subseteq 0 .. 2 ^ LongBits - 1 /\ \A w \in DOMAIN StringAt : StringAt[w] \in Seq(Nat)
    BY LibraryAssumption, Zenon DEF F!FormatAssumption
  <2>2. 0 .. 2 ^ LongBits - 1 \subseteq Nat
    OBVIOUS
  <2>. QED BY <2>1, <2>2
<1>5. word \in Nat /\ StringAt[word] \in Seq(Nat)
  BY <1>3, <1>4
<1>. HIDE DEF word, letter, a
<1>6. letter \in {115, 100, 120, 99}
  BY LetterIs DEF letter
<1>7. F!Written(k) = CASE letter = 115 -> IF word = 0 THEN F!NullString ELSE StringAt[word]
                       [] letter = 100 -> (IF F!AsInt(word) < 0 THEN <<F!Minus>> ELSE <<>>)
                                            \o F!InRadix(F!Abs(F!AsInt(word)), 10)
                       [] letter = 120 -> F!Padded(F!InRadix(word, 16), F!NumberAt(k, F!Letter(k) - 1))
                       [] letter = 99 -> <<word % 256>>
  BY Zenon DEF F!Written, word, letter
<1>8. 10 \in Radix /\ 16 \in Radix
  BY DEF Radix
<1>9. CASE letter = 115
  <2>1. F!Written(k) = IF word = 0 THEN F!NullString ELSE StringAt[word]
    BY <1>7, <1>9
  <2>2. F!NullString \in Seq(Nat)
    BY DEF F!NullString
  <2>3. F!Written(k) \in Seq(Nat)
    BY <1>5, <2>1, <2>2
  <2>. QED BY <1>1, <1>2, <1>5, <2>3 DEF word, a
<1>10. CASE letter = 100
  <2>1. F!Written(k) = (IF F!AsInt(word) < 0 THEN <<F!Minus>> ELSE <<>>) \o F!InRadix(F!Abs(F!AsInt(word)), 10)
    BY <1>7, <1>10
  <2>2. F!AsInt(word) \in Int
    BY <1>5, AsIntIs
  <2>3. F!InRadix(F!Abs(F!AsInt(word)), 10) \in Seq(Nat)
    BY <1>8, <2>2, ItoaIs, RadixIs
  <2>4. (IF F!AsInt(word) < 0 THEN <<F!Minus>> ELSE <<>>) \in Seq(Nat)
    BY DEF F!Minus
  <2>5. F!Written(k) \in Seq(Nat)
    BY <2>1, <2>3, <2>4, ConcatProperties
  <2>. QED BY <1>1, <1>2, <1>5, <2>5 DEF word, a
<1>11. CASE letter = 120
  <2>1. F!Written(k) = F!Padded(F!InRadix(word, 16), F!NumberAt(k, F!Letter(k) - 1))
    BY <1>7, <1>11
  <2>2. F!InRadix(word, 16) \in Seq(Nat)
    BY <1>5, <1>8, RadixIs
  <2>3. F!NumberAt(k, F!Letter(k) - 1) \in Nat
    <3>1. F!Letter(k) - 1 \in k .. F!Letter(k) - 1
      BY LetterIs
    <3>. QED BY <3>1, NumberNat
  <2>4. F!Written(k) \in Seq(Nat)
    BY <2>1, <2>2, <2>3, PaddedIs
  <2>. QED BY <1>1, <1>2, <1>5, <2>4 DEF word, a
<1>12. CASE letter = 99
  <2>1. F!Written(k) = <<word % 256>>
    BY <1>7, <1>12
  <2>2. word % 256 \in Nat
    BY <1>5
  <2>3. F!Written(k) \in Seq(Nat)
    BY <2>1, <2>2
  <2>. QED BY <1>1, <1>2, <1>5, <2>3 DEF word, a
<1>. QED BY <1>6, <1>9, <1>10, <1>11, <1>12

LEMMA FromIs ==
  ASSUME F!IsFormat(format, args)
  PROVE  /\ \A k \in 1 .. Len(format) + 1 : F!From(k) \in Seq(Nat)
         /\ F!From(Len(format) + 1) = <<>>
         /\ \A k \in 1 .. Len(format) :
              F!From(k) = IF format[k] = F!Percent THEN F!Written(k) \o F!From(F!Letter(k) + 1)
                          ELSE <<format[k]>> \o F!From(k + 1)
<1>. DEFINE n == Len(format)
            S == 1 .. n + 1
            X == Seq(Nat)
            Leaf == {n + 1}
            B == [m \in S |-> <<>>]
            next(m) == IF format[m] = F!Percent THEN F!Letter(m) + 1 ELSE m + 1
            piece(m) == IF format[m] = F!Percent THEN F!Written(m) ELSE <<format[m]>>
            D == [m \in S |-> IF m = n + 1 THEN m ELSE next(m)]
            G == [m \in S |-> [x \in X |-> IF m = n + 1 THEN x ELSE piece(m) \o x]]
            rank == [m \in S |-> n + 1 - m]
            Step(f) == [m \in S |-> IF m > Len(format) THEN <<>>
                                    ELSE IF format[m] = F!Percent THEN F!Written(m) \o f[F!Letter(m) + 1]
                                    ELSE <<format[m]>> \o f[m + 1]]
<1>1. n \in Nat /\ \A m \in 1 .. n : format[m] \in Nat
  BY DEF F!IsFormat
<1>2. ASSUME NEW m \in 1 .. n PROVE next(m) \in S /\ next(m) > m /\ piece(m) \in X
  <2>1. CASE format[m] = F!Percent
    <3>1. F!Letter(m) \in m + 1 .. n /\ F!Written(m) \in X
      BY <2>1, LetterIs, WrittenIs
    <3>. QED BY <1>1, <2>1, <3>1
  <2>2. CASE format[m] # F!Percent
    <3>1. <<format[m]>> \in X
      BY <1>1
    <3>. QED BY <1>1, <2>2, <3>1
  <2>. QED BY <2>1, <2>2
<1>. HIDE DEF next, piece, X, n
<1>3. \A m \in S : m # n + 1 => m \in 1 .. n
  BY <1>1
<1>4. <<>> \in X /\ \A x, y \in X : x \o y \in X
  BY DEF X
<1>5. B \in [S -> X] /\ D \in [S -> S] /\ rank \in [S -> Nat]
  BY <1>1, <1>2, <1>3, <1>4
<1>6. G \in [S -> [X -> X]]
  BY <1>2, <1>3, <1>4
<1>7. \A m \in S : m \notin Leaf => rank[D[m]] < rank[m]
  <2>1. ASSUME NEW m \in S, m \notin Leaf PROVE rank[D[m]] < rank[m]
    <3>1. m \in 1 .. n /\ D[m] = next(m) /\ next(m) \in S /\ next(m) > m
      BY <1>2, <1>3, <2>1
    <3>. QED BY <1>1, <3>1
  <2>. QED BY <2>1
<1>8. PICK f \in [S -> X] : Unfolds(f, S, Leaf, B, D, G)
  <2>. HIDE DEF S, Leaf, B, D, G, rank
  <2>. QED BY <1>5, <1>6, <1>7, Recursion
<1>9. f = Step(f)
  <2>1. ASSUME NEW m \in S
        PROVE  f[m] = IF m > Len(format) THEN <<>>
                      ELSE IF format[m] = F!Percent THEN F!Written(m) \o f[F!Letter(m) + 1]
                      ELSE <<format[m]>> \o f[m + 1]
    <3>1. f[m] = IF m \in Leaf THEN B[m] ELSE G[m][f[D[m]]]
      BY <1>8 DEF Unfolds
    <3>2. CASE m = n + 1
      <4>1. f[m] = <<>>
        BY <3>1, <3>2
      <4>2. m > Len(format)
        BY <1>1, <3>2 DEF n
      <4>. QED BY <4>1, <4>2
    <3>3. CASE m # n + 1
      <4>1. m \in 1 .. n /\ next(m) \in S /\ f[next(m)] \in X /\ D[m] = next(m)
        BY <1>2, <1>3, <3>3
      <4>2. f[m] = piece(m) \o f[next(m)]
        BY <3>1, <3>3, <4>1
      <4>3. ~(m > Len(format))
        BY <1>1, <4>1 DEF n
      <4>4. CASE format[m] = F!Percent
        BY <4>2, <4>3, <4>4 DEF piece, next
      <4>5. CASE format[m] # F!Percent
        BY <4>2, <4>3, <4>5 DEF piece, next
      <4>. QED BY <4>4, <4>5
    <3>. QED BY <3>2, <3>3
  <2>2. f = [m \in S |-> f[m]]
    OBVIOUS
  <2>. QED BY <2>1, <2>2
<1>. DEFINE from == CHOOSE g : g = Step(g)
<1>10. from = Step(from)
  <2>. HIDE DEF Step
  <2>. QED BY <1>9
<1>11. \A k : F!From(k) = from[k]
  BY DEF F!From, n
<1>. HIDE DEF from
<1>12. ASSUME NEW m \in S
       PROVE  from[m] = IF m = n + 1 THEN <<>> ELSE piece(m) \o from[next(m)]
  <2>1. from[m] = IF m > Len(format) THEN <<>>
                  ELSE IF format[m] = F!Percent THEN F!Written(m) \o from[F!Letter(m) + 1]
                  ELSE <<format[m]>> \o from[m + 1]
    BY <1>10
  <2>2. m > Len(format) <=> m = n + 1
    BY <1>1 DEF n
  <2>. QED BY <2>1, <2>2 DEF piece, next
<1>13. \A m \in S : from[m] \in X
  <2>. DEFINE T == {r \in Nat : \E m \in S : r = n + 1 - m /\ from[m] \notin X}
  <2>1. SUFFICES ASSUME T # {} PROVE FALSE
    <3>1. \A m \in S : n + 1 - m \in Nat
      BY <1>1
    <3>. QED BY <3>1
  <2>2. PICK r \in T : \A q \in T : r <= q
    <3>1. T \in SUBSET Nat
      OBVIOUS
    <3>. HIDE DEF T
    <3>. QED BY <2>1, <3>1, LeastNat
  <2>3. PICK m \in S : r = n + 1 - m /\ from[m] \notin X
    BY <2>2
  <2>4. m # n + 1
    BY <1>4, <1>12, <2>3
  <2>5. m \in 1 .. n /\ next(m) \in S /\ next(m) > m /\ piece(m) \in X
    BY <1>2, <1>3, <2>4
  <2>6. n + 1 - next(m) \in Nat /\ ~(r <= n + 1 - next(m))
    BY <1>1, <2>3, <2>5
  <2>7. from[next(m)] \in X
    BY <2>2, <2>5, <2>6
  <2>8. from[m] \in X
    BY <1>4, <1>12, <2>4, <2>5, <2>7
  <2>. QED BY <2>3, <2>8
<1>14. n + 1 \in S /\ \A m \in 1 .. n : m \in S /\ m # n + 1
  BY <1>1
<1>15. \A m \in 1 .. n : from[m] = piece(m) \o from[next(m)]
  BY <1>12, <1>14
<1>16. from[n + 1] = <<>>
  BY <1>12, <1>14
<1>. HIDE DEF S
<1>17. ASSUME NEW m \in 1 .. Len(format)
       PROVE  F!From(m) = IF format[m] = F!Percent THEN F!Written(m) \o F!From(F!Letter(m) + 1)
                          ELSE <<format[m]>> \o F!From(m + 1)
  <2>1. from[m] = piece(m) \o from[next(m)]
    BY <1>15 DEF n
  <2>. QED BY <1>11, <2>1 DEF piece, next
<1>. QED BY <1>11, <1>13, <1>16, <1>17 DEF S, X, n

\* What printf writes before index k is e, and str is e, or no longer than e and another text.
SoFar(e, k) ==
  /\ e \in Seq(Nat) /\ F!Printf = e \o F!From(k)
  /\ Len(str) <= Len(e) /\ (str = e <=> ~ F!CutBefore(k))

\* The state at a directive or character that begins at k.
ReadingAt(k) ==
  /\ IF conv
     THEN /\ k \in F!Percents(Len(format))
          /\ \E j \in Nat : /\ i = j + 1 /\ j + 1 \in k + 1 .. F!Letter(k)
                           /\ width = F!NumberAt(k, j) /\ (zero <=> j > k)
     ELSE i = k /\ ~zero /\ width = 0
  /\ taken = Cardinality(F!Percents(k - 1))

FormatNow ==
  /\ F!IsFormat(format, args) /\ str \in Seq(Nat)
  /\ \E k \in 1 .. Len(format) + 1 : ReadingAt(k) /\ \E e : SoFar(e, k)

LEMMA FormatInvIs == F!FormatInv <=> FormatNow
<1>. DEFINE Prefix(n, k) == /\ F!Printf = SubSeq(F!Printf, 1, n) \o F!From(k)
                            /\ str = SubSeq(F!Printf, 1, n) <=> ~ F!CutBefore(k)
<1>1. F!FormatInv <=>
        /\ F!IsFormat(format, args) /\ str \in Seq(Nat)
        /\ \E k \in 1 .. Len(format) + 1 :
             ReadingAt(k) /\ \E n \in Len(str) .. Len(F!Printf) : Prefix(n, k)
  <2>1. ASSUME NEW k \in 1 .. Len(format) + 1
        PROVE  (/\ i \in k + 1 .. F!Letter(k)
                /\ width = F!NumberAt(k, i - 1) /\ (zero <=> i > k + 1)) <=>
               \E j \in Nat : /\ i = j + 1 /\ j + 1 \in k + 1 .. F!Letter(k)
                             /\ width = F!NumberAt(k, j) /\ (zero <=> j > k)
    <3>1. ASSUME NEW j \in Nat, i = j + 1 PROVE i - 1 = j /\ (i > k + 1 <=> j > k)
      BY <3>1
    <3>2. ASSUME i \in k + 1 .. F!Letter(k) PROVE i - 1 \in Nat /\ i = (i - 1) + 1
      BY <3>2
    <3>. QED BY <3>1, <3>2
  <2>. QED BY <2>1, CardinalityIs, Zenon DEF F!FormatInv, ReadingAt
<1>2. ASSUME F!IsFormat(format, args), str \in Seq(Nat), NEW k \in 1 .. Len(format) + 1
      PROVE  (\E n \in Len(str) .. Len(F!Printf) : Prefix(n, k)) <=> \E e : SoFar(e, k)
  <2>1. F!Printf \in Seq(Nat) /\ F!From(k) \in Seq(Nat)
    <3>1. 1 \in 1 .. Len(format) + 1
      BY <1>2 DEF F!IsFormat
    <3>. QED BY <1>2, <3>1, FromIs DEF F!Printf
  <2>2. Len(str) \in Nat /\ Len(F!Printf) \in Nat
    BY <1>2, <2>1
  <2>3. ASSUME NEW n \in Len(str) .. Len(F!Printf), Prefix(n, k) PROVE SoFar(SubSeq(F!Printf, 1, n), k)
    <3>1. SubSeq(F!Printf, 1, n) \in Seq(Nat) /\ Len(SubSeq(F!Printf, 1, n)) = n
      BY <2>1, <2>2
    <3>. QED BY <2>2, <2>3, <3>1 DEF SoFar
  <2>4. ASSUME NEW e, SoFar(e, k)
        PROVE  Len(e) \in Len(str) .. Len(F!Printf) /\ Prefix(Len(e), k)
    <3>1. e \in Seq(Nat) /\ F!Printf = e \o F!From(k) /\ Len(str) <= Len(e)
      BY <2>4 DEF SoFar
    <3>2. Len(F!Printf) = Len(e) + Len(F!From(k)) /\ Len(e) \in Nat /\ Len(F!From(k)) \in Nat
      BY <2>1, <3>1
    <3>3. SubSeq(F!Printf, 1, Len(e)) = e
      BY <2>1, <3>1
    <3>4. Len(e) \in Len(str) .. Len(F!Printf)
      BY <2>2, <3>1, <3>2
    <3>5. Prefix(Len(e), k)
      BY <2>4, <3>1, <3>3 DEF SoFar
    <3>. QED BY <3>4, <3>5
  <2>. QED BY <2>3, <2>4
<1>. HIDE DEF Prefix
<1>. QED BY <1>1, <1>2, Zenon DEF FormatNow

\* At the end all of it is written.
LEMMA PrintfIs ==
  ASSUME FormatNow
  PROVE  FormatIsPrintf
<1>1. PICK k \in 1 .. Len(format) + 1 : ReadingAt(k) /\ \E e : SoFar(e, k)
  BY DEF FormatNow
<1>0. PICK e : SoFar(e, k)
  BY <1>1
<1>2. F!IsFormat(format, args) /\ Len(format) \in Nat
  <2>1. F!IsFormat(format, args)
    BY DEF FormatNow
  <2>. QED BY <2>1 DEF F!IsFormat
<1>3. SUFFICES ASSUME i > Len(format) PROVE str = F!Printf <=> ~ F!HexCut
  BY DEF FormatIsPrintf
<1>4. ~conv
  <2>1. SUFFICES ASSUME conv PROVE FALSE
    OBVIOUS
  <2>2. k \in 1 .. Len(format) /\ format[k] = F!Percent /\ i \in k + 1 .. F!Letter(k)
    BY <1>1, <2>1, Zenon DEF ReadingAt, F!Percents
  <2>3. F!Letter(k) \in k + 1 .. Len(format)
    BY <1>2, <2>2, LetterIs
  <2>. QED BY <1>2, <1>3, <2>2, <2>3
<1>5. k = Len(format) + 1
  BY <1>1, <1>2, <1>3, <1>4 DEF ReadingAt
<1>6. F!Printf = e \o <<>> /\ e \in Seq(Nat) /\ (str = e <=> ~ F!CutBefore(Len(format) + 1))
  BY <1>0, <1>2, <1>5, FromIs DEF SoFar
<1>7. F!Printf = e
  BY <1>6
<1>. QED BY <1>6, <1>7 DEF F!HexCut

\* What printf writes depends on the format and the arguments only.
LEMMA SameFormat ==
  ASSUME format' = format, args' = args
  PROVE  /\ F!IsFormat(format, args)' <=> F!IsFormat(format, args)
         /\ F!Printf' = F!Printf
         /\ \A k : /\ F!From(k)' = F!From(k) /\ F!Percents(k)' = F!Percents(k)
                   /\ F!Letter(k)' = F!Letter(k) /\ F!CutBefore(k)' = F!CutBefore(k)
                   /\ \A l : F!NumberAt(k, l)' = F!NumberAt(k, l)
<1>1. \A k : F!Percents(k)' = F!Percents(k) /\ F!Letter(k)' = F!Letter(k)
  BY DEF F!Percents, F!Letter
<1>2. \A k, l : F!NumberAt(k, l)' = F!NumberAt(k, l)
  BY DEF F!NumberAt
<1>3. \A k : F!Argument(k)' = F!Argument(k)
  BY <1>1 DEF F!Argument
<1>4. \A k : F!Written(k)' = F!Written(k)
  BY <1>1, <1>2, <1>3 DEF F!Written
<1>5. \A k : F!From(k)' = F!From(k)
  BY <1>1, <1>4 DEF F!From
<1>6. \A k : F!CutBefore(k)' = F!CutBefore(k)
  BY <1>1, <1>3 DEF F!CutBefore
<1>7. F!IsFormat(format, args)' <=> F!IsFormat(format, args)
  OBVIOUS
<1>. QED BY <1>1, <1>2, <1>5, <1>6, <1>7 DEF F!Printf

\* The same for the places that a directive has none of.
LEMMA CutAt ==
  ASSUME F!IsFormat(format, args), NEW k \in 1 .. Len(format)
  PROVE  /\ format[k] # F!Percent =>
              /\ F!Percents(k) = F!Percents(k - 1)
              /\ F!CutBefore(k + 1) <=> F!CutBefore(k)
         /\ format[k] = F!Percent =>
              /\ F!Percents(F!Letter(k)) = F!Percents(k)
              /\ F!CutBefore(F!Letter(k) + 1) <=>
                   \/ F!CutBefore(k)
                   \/ format[F!Letter(k)] = 120 /\ F!Argument(k) > 2 ^ (IntBits - 1)
<1>1. Len(format) \in Nat
  BY DEF F!IsFormat
<1>2. F!Percents(k) = F!Percents(k - 1) \cup (IF format[k] = F!Percent THEN {k} ELSE {})
  BY ArgumentIs
<1>3. CASE format[k] # F!Percent
  <2>1. F!Percents(k) = F!Percents(k - 1) /\ (k + 1) - 1 = k
    BY <1>1, <1>2, <1>3
  <2>2. F!CutBefore(k + 1) <=> F!CutBefore(k)
    BY <2>1 DEF F!CutBefore
  <2>. QED BY <1>3, <2>1, <2>2
<1>4. CASE format[k] = F!Percent
  <2>1. /\ F!Letter(k) \in k + 1 .. Len(format) /\ format[F!Letter(k)] \in {115, 100, 120, 99}
        /\ \A m \in k + 1 .. F!Letter(k) - 1 : format[m] \in F!Digits
    BY <1>4, LetterIs
  <2>2. \A m \in k + 1 .. F!Letter(k) : format[m] # F!Percent
    <3>1. ASSUME NEW m \in k + 1 .. F!Letter(k) PROVE format[m] # F!Percent
      <4>1. m \in k + 1 .. F!Letter(k) - 1 \/ m = F!Letter(k)
        BY <2>1
      <4>2. CASE m = F!Letter(k)
        BY <2>1, <4>2 DEF F!Percent
      <4>3. CASE m \in k + 1 .. F!Letter(k) - 1
        <5>1. format[m] \in F!Digits
          BY <2>1, <4>3, Zenon
        <5>. QED BY <5>1, NoDigits, Zenon
      <4>. QED BY <4>1, <4>2, <4>3
    <3>. QED BY <3>1
  <2>3. \A m : m \in 1 .. F!Letter(k) <=> m \in 1 .. k \/ m \in k + 1 .. F!Letter(k)
    BY <2>1
  <2>4. F!Percents(F!Letter(k)) = F!Percents(k)
    BY <2>2, <2>3 DEF F!Percents
  <2>5. (F!Letter(k) + 1) - 1 = F!Letter(k)
    BY <2>1
  <2>6. F!Percents((F!Letter(k) + 1) - 1) = F!Percents(k - 1) \cup {k}
    BY <1>2, <1>4, <2>4, <2>5
  <2>. DEFINE Cut(m) == format[F!Letter(m)] = 120 /\ F!Argument(m) > 2 ^ (IntBits - 1)
              l == F!Letter(k) + 1
  <2>7. \A j : F!CutBefore(j) <=> \E m \in F!Percents(j - 1) : Cut(m)
    BY DEF F!CutBefore
  <2>8. F!Percents(l - 1) = F!Percents(k - 1) \cup {k}
    BY <2>6
  <2>. HIDE DEF Cut, l
  <2>9. F!CutBefore(l) <=> F!CutBefore(k) \/ Cut(k)
    BY <2>7, <2>8
  <2>. QED BY <1>4, <2>4, <2>9 DEF Cut, l
<1>. QED BY <1>3, <1>4

\* A piece of the text is written: d by printf, c by vsnprintf, from index k up to l.
Piece(c, d, k, l) ==
  /\ k \in 1 .. Len(format) + 1 /\ l \in 1 .. Len(format) + 1
  /\ NoLonger(c, d) /\ F!From(k) = d \o F!From(l)
  /\ F!CutBefore(l) <=> F!CutBefore(k) \/ c # d

LEMMA PieceWritten ==
  ASSUME F!IsFormat(format, args), str \in Seq(Nat), format' = format, args' = args,
         NEW k, NEW l, NEW e, SoFar(e, k), NEW c, NEW d, Piece(c, d, k, l), str' = str \o c
  PROVE  str' \in Seq(Nat) /\ SoFar(e \o d, l)'
<1>1. /\ e \in Seq(Nat) /\ F!Printf = e \o F!From(k) /\ NoLonger(str, e)
      /\ str = e <=> ~ F!CutBefore(k)
  BY DEF SoFar, NoLonger
<1>2. /\ NoLonger(c, d) /\ d \in Seq(Nat) /\ F!From(k) = d \o F!From(l) /\ F!From(l) \in Seq(Nat)
      /\ F!CutBefore(l) <=> F!CutBefore(k) \/ c # d
  BY FromIs DEF Piece, NoLonger
<1>3. F!Printf = (e \o d) \o F!From(l)
  <2>1. e \in Seq(Nat) /\ d \in Seq(Nat) /\ F!From(l) \in Seq(Nat)
    BY <1>1, <1>2, Zenon
  <2>2. e \o (d \o F!From(l)) = (e \o d) \o F!From(l)
    BY <2>1, Associative, Zenon
  <2>3. F!Printf = e \o F!From(k) /\ F!From(k) = d \o F!From(l)
    BY <1>1, <1>2, Zenon
  <2>. QED BY <2>2, <2>3, Zenon
<1>4. Concatenated(str, e, c, d)
  <2>1. NoLonger(str, e) /\ NoLonger(c, d)
    BY <1>1, <1>2, Zenon
  <2>. QED BY <2>1, ConcatSame
<1>5. str \o c = e \o d <=> ~ F!CutBefore(l)
  BY <1>1, <1>2, <1>4 DEF Concatenated
<1>6. str \o c \in Seq(Nat) /\ e \o d \in Seq(Nat) /\ Len(str \o c) <= Len(e \o d)
  BY <1>4, Zenon DEF NoLonger, Concatenated
<1>7. F!Printf' = F!Printf /\ F!From(l)' = F!From(l) /\ F!CutBefore(l)' = F!CutBefore(l)
  BY SameFormat
<1>. QED BY <1>3, <1>5, <1>6, <1>7 DEF SoFar

LEMMA PlainStep ==
  ASSUME FormatNow, F!Plain
  PROVE  FormatNow'
<1>1. F!IsFormat(format, args) /\ str \in Seq(Nat)
  BY DEF FormatNow
<1>2. /\ i <= Len(format) /\ ~conv /\ format[i] # F!Percent
      /\ str' = str \o <<format[i]>> /\ i' = i + 1 /\ conv' = FALSE
      /\ format' = format /\ args' = args /\ taken' = taken /\ zero' = zero /\ width' = width
  BY DEF F!Plain, F!Going, F!At, F!Puts
<1>3. PICK k \in 1 .. Len(format) + 1 : ReadingAt(k) /\ \E e : SoFar(e, k)
  BY DEF FormatNow
<1>4. i = k /\ ~zero /\ width = 0 /\ taken = Cardinality(F!Percents(k - 1))
  BY <1>2, <1>3 DEF ReadingAt
<1>5. PICK e : SoFar(e, k)
  BY <1>3
<1>6. Len(format) \in Nat /\ k \in 1 .. Len(format) /\ k + 1 \in 1 .. Len(format) + 1 /\ format[k] \in Nat
  <2>1. format \in Seq(Nat)
    BY <1>1, Zenon DEF F!IsFormat
  <2>2. Len(format) \in Nat /\ k \in 1 .. Len(format)
    BY <1>2, <1>4, <2>1
  <2>. QED BY <2>1, <2>2
<1>7. F!From(k) = <<format[k]>> \o F!From(k + 1)
  BY <1>1, <1>2, <1>4, <1>6, FromIs
<1>8. F!Percents(k) = F!Percents(k - 1) /\ (F!CutBefore(k + 1) <=> F!CutBefore(k))
  BY <1>1, <1>2, <1>4, <1>6, CutAt
<1>9. Piece(<<format[k]>>, <<format[k]>>, k, k + 1)
  <2>1. NoLonger(<<format[k]>>, <<format[k]>>)
    BY <1>6 DEF NoLonger
  <2>. QED BY <1>6, <1>7, <1>8, <2>1 DEF Piece
<1>10. str' \in Seq(Nat) /\ SoFar(e \o <<format[k]>>, k + 1)'
  <2>1. str' = str \o <<format[k]>> /\ format' = format /\ args' = args
    BY <1>2, <1>4
  <2>. QED BY <1>1, <1>5, <1>9, <2>1, PieceWritten
<1>11. ReadingAt(k + 1)'
  <2>1. F!Percents((k + 1) - 1)' = F!Percents(k)
    BY <1>2, <1>6, SameFormat
  <2>. QED BY <1>2, <1>4, <1>8, <2>1 DEF ReadingAt
<1>12. F!IsFormat(format, args)' /\ Len(format') = Len(format)
  BY <1>1, <1>2, SameFormat
<1>. QED BY <1>6, <1>10, <1>11, <1>12 DEF FormatNow

\* Before a directive has ended nothing is written.
LEMMA SameSoFar ==
  ASSUME FormatNow, NEW k, NEW e, SoFar(e, k), format' = format, args' = args, str' = str
  PROVE  SoFar(e, k)'
<1>1. F!Printf' = F!Printf /\ F!From(k)' = F!From(k) /\ F!CutBefore(k)' = F!CutBefore(k)
  BY SameFormat
<1>. QED BY <1>1 DEF SoFar

LEMMA SignStep ==
  ASSUME FormatNow, F!Sign
  PROVE  FormatNow'
<1>1. F!IsFormat(format, args) /\ str \in Seq(Nat)
  BY DEF FormatNow
<1>2. /\ i <= Len(format) /\ ~conv /\ format[i] = F!Percent
      /\ i' = i + 1 /\ conv' = TRUE /\ format' = format /\ args' = args
      /\ taken' = taken /\ zero' = zero /\ width' = width /\ str' = str
  BY DEF F!Sign, F!Going, F!At
<1>3. PICK k \in 1 .. Len(format) + 1 : ReadingAt(k) /\ \E e : SoFar(e, k)
  BY DEF FormatNow
<1>4. i = k /\ ~zero /\ width = 0 /\ taken = Cardinality(F!Percents(k - 1))
  BY <1>2, <1>3 DEF ReadingAt
<1>5. Len(format) \in Nat /\ k \in 1 .. Len(format)
  <2>1. Len(format) \in Nat
    BY <1>1 DEF F!IsFormat
  <2>. QED BY <1>2, <1>4, <2>1
<1>6. /\ k \in F!Percents(Len(format)) /\ k + 1 \in k + 1 .. F!Letter(k) /\ (k + 1) - 1 = k
      /\ F!NumberAt(k, k) = 0
  <2>1. F!Letter(k) \in k + 1 .. Len(format)
    BY <1>1, <1>2, <1>4, <1>5, LetterIs
  <2>2. F!NumberAt(k, k) = 0
    BY <1>1, <1>5, NumberIs
  <2>. QED BY <1>2, <1>4, <1>5, <2>1, <2>2 DEF F!Percents
<1>7. /\ F!Percents(Len(format))' = F!Percents(Len(format)) /\ F!Letter(k)' = F!Letter(k)
      /\ F!NumberAt(k, k)' = F!NumberAt(k, k) /\ F!Percents(k - 1)' = F!Percents(k - 1)
  BY <1>2, SameFormat
<1>8. ReadingAt(k)'
  <2>1. i' = k + 1 /\ ~(k > k) /\ k \in Nat
    BY <1>2, <1>4, <1>5
  <2>. QED BY <1>2, <1>4, <1>6, <1>7, <2>1 DEF ReadingAt
<1>. QED BY <1>1, <1>2, <1>3, <1>8, SameSoFar, SameFormat DEF FormatNow

LEMMA NumberStep ==
  ASSUME FormatNow, F!Number
  PROVE  FormatNow'
<1>1. F!IsFormat(format, args) /\ str \in Seq(Nat)
  BY DEF FormatNow
<1>2. /\ i <= Len(format) /\ conv /\ format[i] \in F!Digits
      /\ zero' = (zero \/ (format[i] = F!Digit0 /\ width = 0))
      /\ width' = 10 * width + format[i] - F!Digit0
      /\ i' = i + 1 /\ conv' = conv /\ format' = format /\ args' = args
      /\ taken' = taken /\ str' = str
  BY DEF F!Number, F!Going, F!At
<1>3. PICK k \in 1 .. Len(format) + 1 : ReadingAt(k) /\ \E e : SoFar(e, k)
  BY DEF FormatNow
<1>4. /\ k \in F!Percents(Len(format)) /\ taken = Cardinality(F!Percents(k - 1))
      /\ \E j \in Nat : /\ i = j + 1 /\ j + 1 \in k + 1 .. F!Letter(k)
                       /\ width = F!NumberAt(k, j) /\ (zero <=> j > k)
  BY <1>2, <1>3 DEF ReadingAt
<1>5. PICK j \in Nat : /\ i = j + 1 /\ j + 1 \in k + 1 .. F!Letter(k)
                      /\ width = F!NumberAt(k, j) /\ (zero <=> j > k)
  BY <1>4
<1>6. Len(format) \in Nat /\ k \in 1 .. Len(format) /\ format[k] = F!Percent
  <2>1. Len(format) \in Nat
    BY <1>1 DEF F!IsFormat
  <2>2. k \in F!Percents(Len(format))
    BY <1>4
  <2>. QED BY <2>1, <2>2 DEF F!Percents
<1>7. /\ F!Letter(k) \in k + 1 .. Len(format) /\ format[F!Letter(k)] \in {115, 100, 120, 99}
      /\ F!Letter(k) > k + 1 => format[k + 1] = F!Digit0
  BY <1>1, <1>6, LetterIs
<1>8. i # F!Letter(k)
  <2>1. format[i] \in F!Digits /\ format[F!Letter(k)] \notin F!Digits
    <3>1. format[F!Letter(k)] \in {115, 100, 120, 99}
      BY <1>7, Zenon
    <3>. QED BY <1>2, <3>1, NoDigits
  <2>. QED BY <2>1, Zenon
<1>9. /\ i \in Nat /\ i + 1 \in k + 1 .. F!Letter(k) /\ i \in k + 1 .. Len(format) /\ i > k
      /\ i - 1 = j
  BY <1>5, <1>6, <1>7, <1>8
<1>10. F!NumberAt(k, i) = 10 * width + format[i] - F!Digit0
  BY <1>1, <1>5, <1>6, <1>9, NumberIs
<1>11. zero'
  <2>1. CASE i = k + 1
    <3>1. format[i] = F!Digit0
      BY <1>6, <1>7, <1>9, <2>1
    <3>2. j = k
      BY <1>5, <1>6, <2>1
    <3>3. width = 0
      BY <1>1, <1>5, <1>6, <3>2, NumberIs
    <3>. QED BY <1>2, <3>1, <3>3
  <2>2. CASE i # k + 1
    <3>1. j > k
      BY <1>5, <1>6, <1>9, <2>2
    <3>. QED BY <1>2, <1>5, <3>1
  <2>. QED BY <2>1, <2>2
<1>12. PICK n \in Nat : n = i
  BY <1>9
<1>13. /\ F!Percents(Len(format))' = F!Percents(Len(format)) /\ F!Letter(k)' = F!Letter(k)
       /\ F!NumberAt(k, n)' = F!NumberAt(k, n) /\ F!Percents(k - 1)' = F!Percents(k - 1)
  BY <1>2, SameFormat
<1>14. ReadingAt(k)'
  <2>1. /\ i' = n + 1 /\ n + 1 \in k + 1 .. F!Letter(k) /\ width' = F!NumberAt(k, n)
        /\ n > k
    BY <1>2, <1>9, <1>10, <1>12
  <2>. QED BY <1>2, <1>4, <1>11, <1>13, <2>1 DEF ReadingAt
<1>. QED BY <1>1, <1>2, <1>3, <1>14, SameSoFar, SameFormat DEF FormatNow

\* A directive that begins at k is read up to its letter.
Ending(k) ==
  /\ k \in 1 .. Len(format) /\ format[k] = F!Percent /\ i = F!Letter(k)
  /\ taken = Cardinality(F!Percents(k - 1))
  /\ width \in Nat /\ width = F!NumberAt(k, F!Letter(k) - 1)
  /\ ~zero => width = 0
  /\ format[i] # 120 => ~zero

LEMMA EndingAt ==
  ASSUME FormatNow, conv, i <= Len(format), format[i] \notin F!Digits
  PROVE  \E k, e : Ending(k) /\ SoFar(e, k)
<1>1. F!IsFormat(format, args) /\ str \in Seq(Nat)
  BY DEF FormatNow
<1>2. PICK k \in 1 .. Len(format) + 1 : ReadingAt(k) /\ \E e : SoFar(e, k)
  BY DEF FormatNow
<1>3. /\ k \in F!Percents(Len(format)) /\ taken = Cardinality(F!Percents(k - 1))
      /\ \E j \in Nat : /\ i = j + 1 /\ j + 1 \in k + 1 .. F!Letter(k)
                       /\ width = F!NumberAt(k, j) /\ (zero <=> j > k)
  BY <1>2 DEF ReadingAt
<1>4. PICK j \in Nat : /\ i = j + 1 /\ j + 1 \in k + 1 .. F!Letter(k)
                      /\ width = F!NumberAt(k, j) /\ (zero <=> j > k)
  BY <1>3
<1>5. Len(format) \in Nat /\ k \in 1 .. Len(format) /\ format[k] = F!Percent
  <2>1. Len(format) \in Nat
    BY <1>1 DEF F!IsFormat
  <2>. QED BY <1>3, <2>1 DEF F!Percents
<1>6. /\ F!Letter(k) \in k + 1 .. Len(format)
      /\ \A m \in k + 1 .. F!Letter(k) - 1 : format[m] \in F!Digits
      /\ F!Letter(k) > k + 1 => format[F!Letter(k)] = 120
  BY <1>1, <1>5, LetterIs
<1>7. i = F!Letter(k)
  <2>1. i \in k + 1 .. F!Letter(k) /\ i \notin k + 1 .. F!Letter(k) - 1
    BY <1>4, <1>6
  <2>. QED BY <1>5, <1>6, <2>1
<1>8. F!Letter(k) - 1 = j /\ j \in k .. F!Letter(k) - 1
  BY <1>4, <1>5, <1>7
<1>9. width = F!NumberAt(k, F!Letter(k) - 1) /\ width \in Nat
  <2>1. F!NumberAt(k, j) \in Nat
    BY <1>1, <1>5, <1>8, NumberNat
  <2>. QED BY <1>4, <1>8, <2>1
<1>10. ~zero => width = 0
  <2>1. ASSUME ~zero PROVE width = 0
    <3>1. j = k
      BY <1>4, <1>5, <1>8, <2>1
    <3>. QED BY <1>1, <1>4, <1>5, <3>1, NumberIs
  <2>. QED BY <2>1
<1>11. format[i] # 120 => ~zero
  <2>1. ASSUME zero PROVE format[i] = 120
    <3>1. F!Letter(k) > k + 1
      BY <1>4, <1>5, <1>7, <2>1
    <3>. QED BY <1>6, <1>7, <3>1
  <2>. QED BY <2>1
<1>12. Ending(k)
  BY <1>3, <1>5, <1>7, <1>9, <1>10, <1>11 DEF Ending
<1>. QED BY <1>2, <1>12

\* What a conversion does: the text c is put, as printf's or cut.
LEMMA Converted ==
  ASSUME FormatNow, NEW k, NEW e, Ending(k), SoFar(e, k),
         NEW c, NoLonger(c, F!Written(k)), F!Puts(c), taken' = taken + 1, ~zero', width' = 0,
         c # F!Written(k) <=> format[i] = 120 /\ F!Argument(k) > 2 ^ (IntBits - 1)
  PROVE  FormatNow'
<1>0. PICK l, d : l = F!Letter(k) + 1 /\ d = F!Written(k)
  OBVIOUS
<1>1. F!IsFormat(format, args) /\ str \in Seq(Nat)
  BY DEF FormatNow
<1>2. /\ k \in 1 .. Len(format) /\ format[k] = F!Percent /\ i = F!Letter(k)
      /\ taken = Cardinality(F!Percents(k - 1))
  BY DEF Ending
<1>3. /\ str' = str \o c /\ i' = i + 1 /\ conv' = FALSE /\ format' = format /\ args' = args
  BY DEF F!Puts
<1>4. F!Letter(k) \in k + 1 .. Len(format) /\ Len(format) \in Nat
  <2>1. Len(format) \in Nat
    BY <1>1 DEF F!IsFormat
  <2>. QED BY <1>1, <1>2, <2>1, LetterIs
<1>5. l \in 1 .. Len(format) + 1 /\ k \in 1 .. Len(format) + 1 /\ l - 1 = F!Letter(k) /\ i' = l
  <2>1. F!Letter(k) \in 1 .. Len(format) /\ (F!Letter(k) + 1) - 1 = F!Letter(k)
    BY <1>2, <1>4
  <2>2. l \in 1 .. Len(format) + 1 /\ l - 1 = F!Letter(k)
    BY <1>0, <1>4, <2>1
  <2>. QED BY <1>0, <1>2, <1>3, <1>4, <2>2
<1>6. F!From(k) = d \o F!From(l)
  BY <1>0, <1>1, <1>2, FromIs
<1>7. /\ F!Percents(F!Letter(k)) = F!Percents(k)
      /\ F!CutBefore(l) <=> F!CutBefore(k) \/ c # d
  <2>1. /\ F!Percents(F!Letter(k)) = F!Percents(k)
        /\ F!CutBefore(l) <=>
             F!CutBefore(k) \/ (format[F!Letter(k)] = 120 /\ F!Argument(k) > 2 ^ (IntBits - 1))
    BY <1>0, <1>1, <1>2, CutAt
  <2>. QED BY <1>0, <1>2, <2>1
<1>8. Piece(c, d, k, l)
  BY <1>0, <1>5, <1>6, <1>7 DEF Piece
<1>9. str' \in Seq(Nat) /\ SoFar(e \o d, l)'
  BY <1>1, <1>3, <1>8, PieceWritten
<1>10. Cardinality(F!Percents(F!Letter(k))) = taken + 1
  BY <1>1, <1>2, <1>7, ArgumentIs
<1>11. ReadingAt(l)'
  <2>1. F!Percents(l - 1)' = F!Percents(F!Letter(k))
    BY <1>3, <1>5, SameFormat
  <2>. QED BY <1>3, <1>5, <1>10, <2>1 DEF ReadingAt
<1>12. F!IsFormat(format, args)' /\ Len(format') = Len(format)
  BY <1>1, <1>3, SameFormat
<1>. QED BY <1>5, <1>9, <1>11, <1>12 DEF FormatNow

\* At the letter of a directive its argument is taken.
LEMMA ConversionAt ==
  ASSUME FormatNow, NEW char \in {115, 100, 120, 99}, F!Takes(char)
  PROVE  \E k, e : /\ Ending(k) /\ SoFar(e, k) /\ format[F!Letter(k)] = char /\ format[i] = char
                  /\ F!Word = F!Argument(k) /\ F!Word \in Nat /\ StringAt[F!Word] \in Seq(Nat)
                  /\ F!Written(k) \in Seq(Nat)
<1>1. conv /\ i <= Len(format) /\ format[i] = char
  BY DEF F!Takes, F!Going, F!At
<1>2. char \notin F!Digits
  BY DEF F!Digits, F!Digit0
<1>3. PICK k, e : Ending(k) /\ SoFar(e, k)
  BY <1>1, <1>2, EndingAt
<1>4. /\ k \in 1 .. Len(format) /\ format[k] = F!Percent /\ i = F!Letter(k)
      /\ taken = Cardinality(F!Percents(k - 1))
  BY <1>3 DEF Ending
<1>5. F!IsFormat(format, args)
  BY DEF FormatNow
<1>6. /\ F!Argument(k) = args[taken + 1] /\ F!Argument(k) \in Nat
      /\ StringAt[F!Argument(k)] \in Seq(Nat) /\ F!Written(k) \in Seq(Nat)
  BY <1>4, <1>5, WrittenIs
<1>. QED BY <1>1, <1>3, <1>4, <1>6 DEF F!Word

LEMMA ConvSStep ==
  ASSUME FormatNow, F!ConvS
  PROVE  FormatNow'
<1>1. F!Takes(115) /\ taken' = taken + 1 /\ zero' = zero /\ width' = width
  BY DEF F!ConvS
<1>2. PICK k, e : /\ Ending(k) /\ SoFar(e, k) /\ format[F!Letter(k)] = 115 /\ format[i] = 115
                  /\ F!Word = F!Argument(k) /\ F!Written(k) \in Seq(Nat)
  BY <1>1, ConversionAt
<1>3. F!Written(k) = IF F!Word = 0 THEN F!NullString ELSE StringAt[F!Word]
  BY <1>2 DEF F!Written
<1>4. F!Puts(IF F!Word = 0 THEN F!NullString ELSE StringAt[F!Word])
  BY DEF F!ConvS
<1>5. PICK c : c = F!Written(k)
  OBVIOUS
<1>6. F!Puts(c) /\ NoLonger(c, F!Written(k))
  BY <1>2, <1>3, <1>4, <1>5 DEF F!Puts, NoLonger
<1>7. ~zero' /\ width' = 0 /\ format[i] # 120
  BY <1>1, <1>2 DEF Ending
<1>. QED BY <1>1, <1>2, <1>5, <1>6, <1>7, Converted

LEMMA ConvDStep ==
  ASSUME FormatNow, F!ConvD
  PROVE  FormatNow'
<1>1. F!Takes(100) /\ taken' = taken + 1 /\ zero' = zero /\ width' = width
  BY DEF F!ConvD
<1>2. PICK k, e : /\ Ending(k) /\ SoFar(e, k) /\ format[F!Letter(k)] = 100 /\ format[i] = 100
                  /\ F!Word = F!Argument(k) /\ F!Word \in Nat /\ F!Written(k) \in Seq(Nat)
  BY <1>1, ConversionAt
<1>3. F!Written(k) = F!Itoa(F!AsInt(F!Word), 10)
  <2>1. F!Written(k) = (IF F!AsInt(F!Word) < 0 THEN <<F!Minus>> ELSE <<>>)
                         \o F!InRadix(F!Abs(F!AsInt(F!Word)), 10)
    BY <1>2 DEF F!Written
  <2>. QED BY <1>2, <2>1, AsIntIs, ItoaIs
<1>4. F!Puts(F!Itoa(F!AsInt(F!Word), 10))
  BY DEF F!ConvD
<1>5. PICK c : c = F!Written(k)
  OBVIOUS
<1>6. F!Puts(c) /\ NoLonger(c, F!Written(k))
  BY <1>2, <1>3, <1>4, <1>5 DEF F!Puts, NoLonger
<1>7. ~zero' /\ width' = 0 /\ format[i] # 120
  BY <1>1, <1>2 DEF Ending
<1>. QED BY <1>1, <1>2, <1>5, <1>6, <1>7, Converted

LEMMA ConvCStep ==
  ASSUME FormatNow, F!ConvC
  PROVE  FormatNow'
<1>1. F!Takes(99) /\ taken' = taken + 1 /\ zero' = zero /\ width' = width
  BY DEF F!ConvC
<1>2. PICK k, e : /\ Ending(k) /\ SoFar(e, k) /\ format[F!Letter(k)] = 99 /\ format[i] = 99
                  /\ F!Word = F!Argument(k) /\ F!Written(k) \in Seq(Nat)
  BY <1>1, ConversionAt
<1>3. F!Written(k) = <<F!Word % 256>>
  BY <1>2 DEF F!Written
<1>4. F!Puts(<<F!Word % 256>>)
  BY DEF F!ConvC
<1>5. PICK c : c = F!Written(k)
  OBVIOUS
<1>6. F!Puts(c) /\ NoLonger(c, F!Written(k))
  BY <1>2, <1>3, <1>4, <1>5 DEF F!Puts, NoLonger
<1>7. ~zero' /\ width' = 0 /\ format[i] # 120
  BY <1>1, <1>2 DEF Ending
<1>. QED BY <1>1, <1>2, <1>5, <1>6, <1>7, Converted

\* A word that is no int is cut: what is written is another number, and a smaller one.
LEMMA ConvXStep ==
  ASSUME FormatNow, F!ConvX
  PROVE  FormatNow'
<1>. DEFINE n == F!Abs(F!AsInt(F!Word))
            xs == F!Itoa(F!AsInt(F!Word), 16)
            fill == IF zero /\ width > Len(xs) THEN width - Len(xs) ELSE 0
<1>1. /\ F!Takes(120) /\ taken' = taken + 1 /\ ~zero' /\ width' = IF zero THEN 0 ELSE width
      /\ F!Puts([m \in 1 .. fill |-> F!Digit0] \o xs)
  BY DEF F!ConvX
<1>2. PICK k, e : /\ Ending(k) /\ SoFar(e, k) /\ format[F!Letter(k)] = 120 /\ format[i] = 120
                  /\ F!Word = F!Argument(k) /\ F!Word \in Nat /\ F!Written(k) \in Seq(Nat)
  BY <1>1, ConversionAt
<1>3. F!Written(k) = F!Padded(F!InRadix(F!Word, 16), width)
  <2>1. F!Written(k) = F!Padded(F!InRadix(F!Argument(k), 16), F!NumberAt(k, F!Letter(k) - 1))
    BY <1>2 DEF F!Written
  <2>. QED BY <1>2, <2>1 DEF Ending
<1>4. /\ n \in Nat /\ xs = F!InRadix(n, 16)
      /\ F!Word <= 2 ^ (IntBits - 1) => n = F!Word
      /\ F!Word > 2 ^ (IntBits - 1) => n < F!Word
  BY <1>2, AsIntIs, ItoaIs
<1>5. width \in Nat /\ (~zero => width = 0)
  BY <1>2 DEF Ending
<1>6. xs \in Seq(Nat) /\ Len(xs) \in Nat
  <2>1. xs \in Seq(Nat)
    BY <1>4, RadixIs DEF Radix
  <2>. QED BY <2>1
<1>. HIDE DEF n, xs
<1>7. [m \in 1 .. fill |-> F!Digit0] \o xs = F!Padded(xs, width)
  <2>1. 1 .. fill = 1 .. width - Len(xs)
    BY <1>5, <1>6
  <2>. QED BY <2>1 DEF F!Padded
<1>. HIDE DEF fill
<1>8. PICK c : c = F!Padded(F!InRadix(n, 16), width)
  OBVIOUS
<1>9. F!Puts(c)
  BY <1>1, <1>4, <1>7, <1>8 DEF F!Puts
<1>10. 2 ^ (IntBits - 1) \in Nat
  <2>1. IntBits - 1 \in Nat
    BY LibraryAssumption DEF F!FormatAssumption
  <2>. QED BY <2>1, PowerIs
<1>11. c \in Seq(Nat)
  <2>1. F!InRadix(n, 16) \in Seq(Nat)
    BY <1>4, <1>6
  <2>. QED BY <1>5, <1>8, <2>1, PaddedIs
<1>12. NoLonger(c, F!Written(k)) /\ (c # F!Written(k) <=> F!Argument(k) > 2 ^ (IntBits - 1))
  <2>1. CASE F!Word > 2 ^ (IntBits - 1)
    <3>1. /\ Len(F!Padded(F!InRadix(n, 16), width)) <= Len(F!Padded(F!InRadix(F!Word, 16), width))
          /\ F!Padded(F!InRadix(n, 16), width) # F!Padded(F!InRadix(F!Word, 16), width)
      BY <1>2, <1>4, <1>5, <2>1, HexDiffers
    <3>. QED BY <1>2, <1>3, <1>8, <1>11, <2>1, <3>1 DEF NoLonger
  <2>2. CASE ~(F!Word > 2 ^ (IntBits - 1))
    <3>1. n = F!Word
      BY <1>2, <1>4, <1>10, <2>2
    <3>2. c = F!Written(k)
      BY <1>3, <1>8, <3>1
    <3>. QED BY <1>2, <1>11, <2>2, <3>2 DEF NoLonger
  <2>. QED BY <2>1, <2>2
<1>13. width' = 0
  BY <1>1, <1>5
<1>. QED BY <1>1, <1>2, <1>9, <1>12, <1>13, Converted

\* No directive of these formats has any other letter.
LEMMA ConvOtherStep ==
  ASSUME FormatNow
  PROVE  ~ F!ConvOther
<1>1. SUFFICES ASSUME F!ConvOther PROVE FALSE
  OBVIOUS
<1>2. conv /\ i <= Len(format) /\ format[i] \notin F!Digits /\ format[i] \notin {115, 100, 120, 99}
  BY <1>1 DEF F!ConvOther, F!Going, F!At
<1>3. PICK k, e : Ending(k)
  BY <1>2, EndingAt
<1>4. k \in 1 .. Len(format) /\ format[k] = F!Percent /\ i = F!Letter(k)
  BY <1>3 DEF Ending
<1>5. F!IsFormat(format, args)
  BY DEF FormatNow
<1>. QED BY <1>2, <1>4, <1>5, LetterIs

LEMMA FormatStep ==
  ASSUME FormatNow, F!Vsnprintf
  PROVE  FormatNow'
<1>1. F!Plain \/ F!Sign \/ F!Number \/ F!ConvS \/ F!ConvD \/ F!ConvX \/ F!ConvC \/ F!ConvOther
  BY DEF F!Vsnprintf
<1>. QED BY <1>1, PlainStep, SignStep, NumberStep, ConvSStep, ConvDStep, ConvXStep, ConvCStep,
            ConvOtherStep, Zenon

LEMMA SameFormatting ==
  ASSUME FormatNow, UNCHANGED formatting
  PROVE  FormatNow'
<1>1. /\ format' = format /\ args' = args /\ taken' = taken /\ i' = i /\ conv' = conv
      /\ zero' = zero /\ width' = width /\ str' = str
  BY DEF formatting
<1>2. PICK k \in 1 .. Len(format) + 1 : ReadingAt(k) /\ \E e : SoFar(e, k)
  BY DEF FormatNow
<1>3. /\ F!Percents(Len(format))' = F!Percents(Len(format)) /\ F!Letter(k)' = F!Letter(k)
      /\ F!Percents(k - 1)' = F!Percents(k - 1)
      /\ \A j : F!NumberAt(k, j)' = F!NumberAt(k, j)
  BY <1>1, SameFormat
<1>4. ReadingAt(k)'
  BY <1>1, <1>2, <1>3 DEF ReadingAt
<1>5. \E e : SoFar(e, k)'
  BY <1>1, <1>2, SameSoFar
<1>6. F!IsFormat(format, args)' /\ str' \in Seq(Nat)
  BY <1>1, SameFormat DEF FormatNow
<1>. QED BY <1>1, <1>2, <1>4, <1>5, <1>6 DEF FormatNow

\* Nothing is written, and from index 1 on all of it is to be.
LEMMA FormatInit ==
  ASSUME F!IsFormat(format, args), F!Start
  PROVE  FormatNow
<1>1. taken = 0 /\ i = 1 /\ ~conv /\ ~zero /\ width = 0 /\ str = <<>>
  BY DEF F!Start
<1>2. Len(format) \in Nat /\ 1 \in 1 .. Len(format) + 1
  <2>1. Len(format) \in Nat
    BY DEF F!IsFormat
  <2>. QED BY <2>1
<1>3. F!Percents(1 - 1) = {} /\ Cardinality(F!Percents(1 - 1)) = 0
  <2>1. 1 - 1 = 0
    OBVIOUS
  <2>. QED BY <2>1, ArgumentIs
<1>4. ReadingAt(1)
  BY <1>1, <1>3 DEF ReadingAt
<1>5. SoFar(<<>>, 1)
  <2>1. F!From(1) \in Seq(Nat)
    BY <1>2, FromIs
  <2>2. F!Printf = <<>> \o F!From(1)
    BY <2>1 DEF F!Printf
  <2>3. ~ F!CutBefore(1)
    BY <1>3 DEF F!CutBefore
  <2>. QED BY <1>1, <2>2, <2>3 DEF SoFar
<1>6. str \in Seq(Nat)
  BY <1>1
<1>. QED BY <1>2, <1>4, <1>5, <1>6 DEF FormatNow

-----------------------------------------------------------------------------
\* The theorems

AllInv == LibraryInv /\ FindsParameter /\ TablesFound /\ LibIsC

LEMMA InitFormat ==
  ASSUME FormatCall \/ FormatIdle
  PROVE  FormatNow
<1>1. CASE FormatCall
  <2>1. F!IsFormat(format, args) /\ F!Start
    BY <1>1, LibraryAssumption DEF FormatCall
  <2>. QED BY <2>1, FormatInit
<1>2. CASE FormatIdle
  <2>1. format = <<>> /\ args = <<>> /\ F!Start
    BY <1>2 DEF FormatIdle
  <2>2. format \in Seq(Nat) /\ args \in Seq(DOMAIN StringAt) /\ DOMAIN format = {} /\ Len(args) = 0
    BY <2>1
  <2>3. {k \in DOMAIN format : format[k] = F!Percent} = {} /\ Cardinality({}) = 0
    BY <2>2, FS_EmptySet
  <2>4. F!Cardinality({k \in DOMAIN format : format[k] = F!Percent}) <= Len(args)
    BY <2>2, <2>3, CardinalityIs
  <2>5. F!IsFormat(format, args)
    BY <2>2, <2>4 DEF F!IsFormat
  <2>. QED BY <2>1, <2>5, FormatInit
<1>. QED BY <1>1, <1>2

LEMMA InitParams ==
  ASSUME P!Init \/ ParamsIdle
  PROVE  P!ScanInv /\ FindsParameter
<1>1. CASE P!Init
  <2>1. P!Without(cmdline, {Zero}) /\ P!Without(name, {Zero, P!Space, P!Equals})
    BY <1>1, LibraryAssumption DEF P!Init, P!ParamsAssumption
  <2>2. fn \in {"get", "has"} /\ p = 1 /\ farthest = 1 /\ result = P!None
    BY <1>1 DEF P!Init
  <2>3. Len(cmdline) \in Nat
    BY <2>1, TextFacts
  <2>4. 1 \in 1 .. Len(cmdline) + 1
    BY <2>3
  <2>5. P!ScanInv
    BY <2>1, <2>2, <2>4 DEF P!ScanInv
  <2>6. FindsParameter
    BY <2>2 DEF FindsParameter, P!FindsParameter, P!None
  <2>. QED BY <2>5, <2>6
<1>2. CASE ParamsIdle
  <2>1. fn = "none" /\ cmdline = <<>> /\ name = <<>> /\ p = 1 /\ result = P!Null /\ farthest = 1
    BY <1>2 DEF ParamsIdle
  <2>2. P!Without(cmdline, {Zero}) /\ P!Without(name, {Zero, P!Space, P!Equals}) /\ Len(cmdline) = 0
    BY <2>1 DEF P!Without
  <2>3. P!ScanInv
    BY <2>1, <2>2 DEF P!ScanInv, P!Null, P!None
  <2>4. FindsParameter
    BY <2>1 DEF FindsParameter, P!FindsParameter, P!NameLen
  <2>. QED BY <2>3, <2>4
<1>. QED BY <1>1, <1>2

LEMMA InitFirmware ==
  ASSUME FirmwareCall \/ FirmwareIdle
  PROVE  W!WalkInv /\ TablesFound
<1>. DEFINE S == [type : Nat \ {0}, size : Nat \ (0 .. 7)]
<1>1. /\ tags \in Seq(S) /\ wanted \in Nat /\ rsdt \in Seq(STRING) /\ tag = 8 /\ enabled = FALSE
      /\ located = W!NotYet \/ (tags = <<>> /\ located = W!NULL)
  <2>1. CASE FirmwareCall
    BY <2>1, LibraryAssumption DEF FirmwareCall, W!FirmwareStart
  <2>2. CASE FirmwareIdle
    BY <2>2 DEF FirmwareIdle
  <2>. QED BY <2>1, <2>2
<1>2. 1 \in 1 .. Len(tags) + 1 /\ W!Address(1) = 8
  <2>1. Len(tags) \in Nat
    BY <1>1
  <2>. QED BY <2>1, AddressStep
<1>3. W!WalkInv
  <2>1. \A j \in 1 .. 1 - 1 : tags[j].type # wanted
    OBVIOUS
  <2>. QED BY <1>1, <1>2, <2>1 DEF W!WalkInv
<1>4. located # W!NotYet => WalkFound
  BY <1>1 DEF WalkFound
<1>5. tag \in {W!Address(k) : k \in 1 .. Len(tags) + 1}
  BY <1>1, <1>2
<1>. QED BY <1>1, <1>3, <1>4, <1>5, HeaderIsRead DEF TablesFound, W!TablesFound, WalkFound

LEMMA InitStrings ==
  ASSUME StringsCall \/ StringsIdle
  PROVE  /\ ~done => before \in Memories /\ memory = before /\ call \in Calls /\ Legal(call)
         /\ LibIsC
<1>1. CASE StringsCall
  BY <1>1 DEF StringsCall, LibIsC
<1>2. CASE StringsIdle
  <2>1. done /\ call.f = "none"
    BY <1>2 DEF StringsIdle
  <2>. QED BY <2>1 DEF LibIsC
<1>. QED BY <1>1, <1>2

LEMMA AllInit == Init => AllInv
<1>1. Init => /\ P!Init \/ ParamsIdle
              /\ FirmwareCall \/ FirmwareIdle
              /\ StringsCall \/ StringsIdle
              /\ FormatCall \/ FormatIdle
  BY DEF Init
<1>. QED BY <1>1, InitParams, InitFirmware, InitStrings, InitFormat, FormatInvIs DEF AllInv, LibraryInv

LEMMA SameParams ==
  ASSUME P!ScanInv, FindsParameter, UNCHANGED params
  PROVE  P!ScanInv' /\ FindsParameter'
<1>1. /\ fn' = fn /\ cmdline' = cmdline /\ name' = name
      /\ p' = p /\ result' = result /\ farthest' = farthest
  BY DEF params
<1>2. P!ScanInv'
  BY <1>1 DEF P!ScanInv, P!Without, P!Matches, P!NameLen, P!At, P!Plain, P!Occurrences, P!WordStarts,
              P!KeyIs
<1>3. P!NameLen > 0 /\ P!Plain => Answers(result)
  BY <1>1, SameQuestion DEF FindsParameter
<1>4. FindsParameter'
  BY <1>1, <1>3, SameQuestion DEF FindsParameter
<1>. QED BY <1>2, <1>4

LEMMA SameFirmware ==
  ASSUME W!WalkInv, TablesFound, UNCHANGED firmware
  PROVE  W!WalkInv' /\ TablesFound'
<1>1. /\ tags' = tags /\ wanted' = wanted /\ tag' = tag /\ located' = located
      /\ rsdt' = rsdt /\ madt' = madt /\ fadt' = fadt /\ enabled' = enabled
  BY DEF firmware
<1>2. (\A k : W!Address(k)' = W!Address(k)) /\ (WalkFound' <=> WalkFound)
  BY <1>1, SameAddresses
<1>3. W!WalkInv'
  BY <1>1, <1>2 DEF W!WalkInv
<1>4. W!TablesFound'
  <2>1. tag' \in {W!Address(k)' : k \in 1 .. Len(tags') + 1}
    BY <1>1, <1>2 DEF TablesFound, W!TablesFound
  <2>2. located' # W!NotYet => WalkFound'
    BY <1>1, <1>2 DEF TablesFound, W!TablesFound, WalkFound
  <2>3. enabled' => TablesAre'
    BY <1>1 DEF TablesFound, W!TablesFound, TablesAre
  <2>. QED BY <2>1, <2>2, <2>3 DEF W!TablesFound, WalkFound, TablesAre
<1>. QED BY <1>3, <1>4, HeaderIsRead DEF TablesFound

LEMMA SameStrings ==
  ASSUME LibraryInv, LibIsC, UNCHANGED strings
  PROVE  /\ (~done => before \in Memories /\ memory = before /\ call \in Calls /\ Legal(call))'
         /\ LibIsC'
<1>1. memory' = memory /\ before' = before /\ call' = call /\ done' = done
  BY DEF strings
<1>2. \A c : Legal(c)' <=> Legal(c)
  BY <1>1 DEF Legal, Fits, IsString
<1>3. LibIsC'
  BY <1>1 DEF LibIsC
<1>. QED BY <1>1, <1>2, <1>3 DEF LibraryInv

LEMMA AllNext == AllInv /\ [Next]_vars => AllInv'
<1>. SUFFICES ASSUME AllInv, [Next]_vars PROVE AllInv'
  OBVIOUS
<1>. USE DEF AllInv
<1>1. /\ P!ScanInv /\ W!WalkInv /\ LibraryInv /\ FormatNow
      /\ FindsParameter /\ TablesFound /\ LibIsC
  BY FormatInvIs DEF LibraryInv
<1>2. (P!ScanInv /\ FindsParameter)'
  <2>1. CASE P!Next
    BY <1>1, <2>1, ScanInvStep, FindsParameterStep DEF FindsParameter
  <2>2. CASE UNCHANGED params
    BY <1>1, <2>2, SameParams
  <2>. QED BY <2>1, <2>2 DEF Next, vars, params
<1>3. (W!WalkInv /\ TablesFound)'
  <2>1. CASE W!FirmwareStep
    BY <1>1, <2>1, WalkStep, HeaderIsRead DEF TablesFound
  <2>2. CASE UNCHANGED firmware
    BY <1>1, <2>2, SameFirmware
  <2>. QED BY <2>1, <2>2 DEF Next, vars, firmware
<1>4. /\ (~done => before \in Memories /\ memory = before /\ call \in Calls /\ Legal(call))'
      /\ LibIsC'
  <2>1. CASE StringCall
    <3>1. done'
      BY <2>1 DEF StringCall
    <3>. QED BY <1>1, <2>1, <3>1, StringStep
  <2>2. CASE UNCHANGED strings
    BY <1>1, <2>2, SameStrings
  <2>. QED BY <2>1, <2>2 DEF Next, vars, strings
<1>5. FormatNow'
  <2>1. CASE F!Vsnprintf
    BY <1>1, <2>1, FormatStep
  <2>2. CASE UNCHANGED formatting
    BY <1>1, <2>2, SameFormatting
  <2>. QED BY <2>1, <2>2 DEF Next, vars, formatting
<1>6. (F!FormatInv <=> FormatNow)'
  BY FormatInvIs, PTL
<1>. QED BY <1>2, <1>3, <1>4, <1>5, <1>6 DEF LibraryInv

\* The invariant of every call: how far the command line, the tags and the format are scanned,
\* what has been passed and written on the way, and the properties.
THEOREM LibraryInvariant == Spec => []AllInv
<1>1. Init => AllInv
  BY AllInit
<1>2. AllInv /\ [Next]_vars => AllInv'
  BY AllNext
<1>. QED BY <1>1, <1>2, PTL DEF Spec

\* get_cmdline_param_val and has_cmdline_param read no byte behind the zero of the command
\* line, whatever line and name.
THEOREM LineReads == Spec => []ReadsWithinLine
<1>1. AllInv => ReadsWithinLine
  <2>1. ASSUME AllInv PROVE ReadsWithinLine
    <3>1. Len(cmdline) \in Nat /\ p \in 1 .. Len(cmdline) + 1 /\ farthest \in 1 .. Len(cmdline) + 1
      BY <2>1, TextFacts DEF AllInv, LibraryInv, P!ScanInv
    <3>. QED BY <3>1 DEF ReadsWithinLine, P!ReadsWithinLine
  <2>. QED BY <2>1
<1>. QED BY <1>1, LibraryInvariant, PTL

\* In a line that mentions a name only as a key they find the value of its first word, that it
\* has none, or whether there is such a word.
THEOREM ParameterFound == Spec => []FindsParameter
<1>1. AllInv => FindsParameter
  BY DEF AllInv
<1>. QED BY <1>1, LibraryInvariant, PTL

\* multiboot2_locate_tag finds the first tag of the type in any list a loader may have put there,
\* looking at nothing but tags, and acpi_init the first tables of their signatures.
THEOREM TablesAreFound == Spec => []TablesFound
<1>1. AllInv => TablesFound
  BY DEF AllInv
<1>. QED BY <1>1, LibraryInvariant, PTL

\* vsnprintf writes what printf does for every format of the kernel's kind, whatever its
\* arguments, exactly if no word that is given to a %x is more than half of what an int holds.
THEOREM Formatted == Spec => []FormatIsPrintf
<1>1. AllInv => FormatIsPrintf
  BY FormatInvIs, PrintfIs DEF AllInv, LibraryInv
<1>. QED BY <1>1, LibraryInvariant, PTL

\* The functions of lib/common do to any memory what C says of them.
THEOREM LibraryIsC == Spec => []LibIsC
<1>1. AllInv => LibIsC
  BY DEF AllInv
<1>. QED BY <1>1, LibraryInvariant, PTL

=============================================================================
