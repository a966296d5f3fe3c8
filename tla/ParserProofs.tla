------------------------------ MODULE ParserProofs ------------------------------
(***************************************************************************)
(* What the parser promises for lines of every length and files of every   *)
(* number of lines.                                                        *)
(***************************************************************************)
EXTENDS Parser, FiniteSetTheorems, SequenceTheorems, WellFoundedInduction, TLAPS

-----------------------------------------------------------------------------
(* The heap                                                                *)

\* No pointer dangles, no two share a block, the blocks nobody reaches are
\* counted, and the client's pointer is the parser's.
HeapInv ==
  /\ DOMAIN heap \subseteq Blocks
  /\ ptr \in [Pointers -> Blocks \cup {NULL}]
  /\ \A p \in Pointers : ptr[p] # NULL => ptr[p] \in DOMAIN heap
  /\ \A p, q \in Pointers : ptr[p] # NULL /\ ptr[p] = ptr[q] => p = q
  /\ ptr["line"] = NULL <=> ptr["buffer"] = NULL
  /\ ~open => \A p \in Pointers : ptr[p] = NULL
  /\ IsFiniteSet(Unreached) /\ Cardinality(Unreached) = failed
  /\ open /\ held # Nothing =>
       ptr["token"] # NULL /\ held.at = ptr["token"] /\ heap[held.at] = held.text

LEMMA HeapStart == Init => HeapInv
<1> SUFFICES ASSUME Init PROVE HeapInv
  OBVIOUS
<1>1. PICK b \in Blocks : /\ heap = [x \in {b} |-> <<"name">>]
                          /\ ptr = [p \in Pointers |-> IF p = "filename" THEN b ELSE NULL]
  BY DEF Init
<1>2. Unreached = {}
  BY <1>1, ParserAssumption DEF Unreached, Used, Pointers
<1>3. IsFiniteSet(Unreached) /\ Cardinality(Unreached) = 0
  BY <1>2, FS_EmptySet
<1> QED BY <1>1, <1>3, ParserAssumption DEF Init, HeapInv, Pointers

\* What every step shares: blocks are freed that pointers reached, and those
\* pointers are cleared or set to new blocks.  S are the pointers it touches.
LEMMA HeapChange ==
  ASSUME HeapInv, NEW S \in SUBSET Pointers, NEW F, NEW new,
         F = {ptr[p] : p \in S}, heap' = Heap(F, new),
         ptr' \in [Pointers -> Blocks \cup {NULL}],
         \A p \in Pointers \ S : ptr'[p] = ptr[p],
         DOMAIN new \subseteq Fresh(F),
         \A p \in S : ptr'[p] # NULL => ptr'[p] \in DOMAIN new,
         \A p, q \in S : ptr'[p] # NULL /\ ptr'[p] = ptr'[q] => p = q
  PROVE  /\ DOMAIN heap' \subseteq Blocks
         /\ \A p \in Pointers : ptr'[p] # NULL => ptr'[p] \in DOMAIN heap'
         /\ \A p, q \in Pointers : ptr'[p] # NULL /\ ptr'[p] = ptr'[q] => p = q
         /\ \A p \in Pointers \ S : ptr[p] # NULL => heap'[ptr[p]] = heap[ptr[p]]
         /\ \A b \in DOMAIN new : heap'[b] = new[b]
         /\ Unreached' = Unreached \cup (DOMAIN new \ {ptr'[p] : p \in S})
<1>1. /\ DOMAIN heap' = (DOMAIN heap \ F) \cup DOMAIN new
      /\ DOMAIN new \subseteq Blocks /\ DOMAIN new \cap (DOMAIN heap \ F) = {}
      /\ \A b \in DOMAIN new : heap'[b] = new[b]
      /\ \A b \in DOMAIN heap \ F : heap'[b] = heap[b]
  BY DEF Heap, Live, Fresh
<1>2. \A p \in Pointers \ S : ptr[p] # NULL => ptr[p] \in DOMAIN heap \ F
  BY DEF HeapInv
<1>3. \A p \in Pointers : ptr'[p] # NULL => ptr'[p] \in DOMAIN heap'
  BY <1>1, <1>2
<1>4. \A p, q \in Pointers : ptr'[p] # NULL /\ ptr'[p] = ptr'[q] => p = q
  <2> SUFFICES ASSUME NEW p \in Pointers, NEW q \in Pointers,
                      ptr'[p] # NULL, ptr'[p] = ptr'[q]
               PROVE  p = q
    OBVIOUS
  <2>1. CASE p \in S /\ q \in S
    BY <2>1
  <2>2. CASE p \notin S /\ q \notin S
    BY <2>2 DEF HeapInv
  <2>3. CASE p \in S /\ q \notin S
    BY <1>1, <1>2, <2>3
  <2>4. CASE p \notin S /\ q \in S
    BY <1>1, <1>2, <2>4
  <2> QED BY <2>1, <2>2, <2>3, <2>4
<1>5. Unreached' = Unreached \cup (DOMAIN new \ {ptr'[p] : p \in S})
  <2>1. /\ Unreached = {b \in DOMAIN heap : \A p \in Pointers : ptr[p] # b}
        /\ Unreached' = {b \in DOMAIN heap' : \A p \in Pointers : ptr'[p] # b}
    <3>1. NULL \notin DOMAIN heap /\ NULL \notin DOMAIN heap'
      BY <1>1, ParserAssumption DEF HeapInv
    <3> QED BY <3>1 DEF Unreached, Used
  <2>2. ASSUME NEW b \in Unreached' PROVE b \in Unreached \cup (DOMAIN new \ {ptr'[p] : p \in S})
    <3>1. b \in DOMAIN heap' /\ \A p \in Pointers : ptr'[p] # b
      BY <2>1, <2>2
    <3>2. CASE b \in DOMAIN new
      BY <3>1, <3>2
    <3>3. CASE b \notin DOMAIN new
      <4>1. b \in DOMAIN heap /\ b \notin F
        BY <1>1, <3>1, <3>3
      <4>2. \A p \in Pointers : ptr[p] # b
        BY <3>1, <4>1
      <4> QED BY <2>1, <4>1, <4>2
    <3> QED BY <3>2, <3>3
  <2>3. ASSUME NEW b \in Unreached PROVE b \in Unreached'
    <3>1. b \in DOMAIN heap /\ b \notin F /\ \A p \in Pointers : ptr[p] # b
      BY <2>1, <2>3
    <3>2. b \in DOMAIN heap' /\ b \notin DOMAIN new /\ b # NULL
      BY <1>1, <3>1, ParserAssumption DEF HeapInv
    <3>3. \A p \in Pointers : ptr'[p] # b
      BY <3>1, <3>2
    <3> QED BY <2>1, <3>2, <3>3
  <2>4. ASSUME NEW b \in DOMAIN new \ {ptr'[p] : p \in S} PROVE b \in Unreached'
    <3>1. b \in DOMAIN heap' /\ b \notin DOMAIN heap \ F /\ b # NULL
      BY <1>1, <2>4, ParserAssumption
    <3>2. \A p \in Pointers : ptr'[p] # b
      BY <1>2, <2>4, <3>1
    <3> QED BY <2>1, <3>1, <3>2
  <2> QED BY <2>2, <2>3, <2>4
<1> QED BY <1>1, <1>2, <1>3, <1>4, <1>5 DEF HeapInv

LEMMA HeapStep == HeapInv /\ [Next]_vars => HeapInv'
<1> SUFFICES ASSUME HeapInv, [Next]_vars PROVE HeapInv'
  OBVIOUS
<1>0. Pointers = {"filename", "line", "buffer", "token"}
  BY DEF Pointers
<1>1. CASE NextLine
  <2> DEFINE S == {"line", "buffer"}
  <2>1. PICK b \in Fresh(LineBlocks), l \in Fresh(LineBlocks) :
          /\ b # l
          /\ heap' = Heap(LineBlocks,
                          [x \in {b, l} |-> IF x = b THEN Head(rest) ELSE <<"Line">>])
          /\ ptr' = [ptr EXCEPT !["line"] = l, !["buffer"] = b]
    BY <1>1 DEF NextLine
  <2> DEFINE new == [x \in {b, l} |-> IF x = b THEN Head(rest) ELSE <<"Line">>]
  <2>2. b \in Blocks /\ l \in Blocks /\ b # l /\ b # NULL /\ l # NULL
    BY <2>1, ParserAssumption DEF Fresh
  <2>3. /\ ptr' \in [Pointers -> Blocks \cup {NULL}]
        /\ ptr'["line"] = l /\ ptr'["buffer"] = b
        /\ \A p \in Pointers \ S : ptr'[p] = ptr[p]
    BY <1>0, <2>1, <2>2 DEF HeapInv
  <2>4. /\ LineBlocks = {ptr[p] : p \in S} /\ S \in SUBSET Pointers
        /\ heap' = Heap(LineBlocks, new) /\ DOMAIN new = {b, l}
        /\ DOMAIN new \subseteq Fresh(LineBlocks)
        /\ \A p \in S : ptr'[p] # NULL => ptr'[p] \in DOMAIN new
        /\ \A p, q \in S : ptr'[p] # NULL /\ ptr'[p] = ptr'[q] => p = q
        /\ DOMAIN new \ {ptr'[p] : p \in S} = {}
    BY <1>0, <2>1, <2>2, <2>3 DEF LineBlocks
  <2> HIDE DEF S, new
  <2>5. /\ DOMAIN heap' \subseteq Blocks
        /\ \A p \in Pointers : ptr'[p] # NULL => ptr'[p] \in DOMAIN heap'
        /\ \A p, q \in Pointers : ptr'[p] # NULL /\ ptr'[p] = ptr'[q] => p = q
        /\ \A p \in Pointers \ S : ptr[p] # NULL => heap'[ptr[p]] = heap[ptr[p]]
        /\ Unreached' = Unreached \cup (DOMAIN new \ {ptr'[p] : p \in S})
    BY <2>3, <2>4, HeapChange
  <2>6. Unreached' = Unreached /\ open' = open /\ open /\ held' = held /\ failed' = failed
    BY <1>1, <2>4, <2>5 DEF NextLine
  <2>7. "token" \in Pointers \ S
    BY DEF S, Pointers
  <2> QED BY <2>2, <2>3, <2>5, <2>6, <2>7 DEF HeapInv
<1>2. CASE NextFails
  <2> DEFINE S == {"line", "buffer"}
  <2>1. PICK b \in Fresh(LineBlocks) : heap' = Heap(LineBlocks, [x \in {b} |-> <<>>])
    BY <1>2 DEF NextFails
  <2> DEFINE new == [x \in {b} |-> <<>>]
  <2>2. b \in Blocks /\ b # NULL
    BY <2>1, ParserAssumption DEF Fresh
  <2>3. /\ ptr' \in [Pointers -> Blocks \cup {NULL}]
        /\ ptr'["line"] = NULL /\ ptr'["buffer"] = NULL
        /\ \A p \in Pointers \ S : ptr'[p] = ptr[p]
    BY <1>0, <1>2 DEF HeapInv, NextFails
  <2>4. /\ LineBlocks = {ptr[p] : p \in S} /\ S \in SUBSET Pointers
        /\ heap' = Heap(LineBlocks, new) /\ DOMAIN new = {b}
        /\ DOMAIN new \subseteq Fresh(LineBlocks)
        /\ \A p \in S : ptr'[p] = NULL
        /\ DOMAIN new \ {ptr'[p] : p \in S} = {b}
    BY <1>0, <2>1, <2>2, <2>3 DEF LineBlocks
  <2> HIDE DEF S, new
  <2>5. /\ DOMAIN heap' \subseteq Blocks
        /\ \A p \in Pointers : ptr'[p] # NULL => ptr'[p] \in DOMAIN heap'
        /\ \A p, q \in Pointers : ptr'[p] # NULL /\ ptr'[p] = ptr'[q] => p = q
        /\ \A p \in Pointers \ S : ptr[p] # NULL => heap'[ptr[p]] = heap[ptr[p]]
        /\ Unreached' = Unreached \cup (DOMAIN new \ {ptr'[p] : p \in S})
    BY <2>3, <2>4, HeapChange
  <2>6. Unreached' = Unreached \cup {b} /\ b \notin Unreached
    <3>1. b \notin Unreached
      <4>1. b \notin DOMAIN heap \ LineBlocks
        BY <2>1 DEF Fresh, Live
      <4>2. \A x \in Unreached : x \in DOMAIN heap /\ x \in Blocks /\ x \notin LineBlocks
        <5>1. \A x \in Unreached : x \in DOMAIN heap /\ x \in Blocks
          BY DEF Unreached, HeapInv
        <5>2. ASSUME NEW x \in Unreached, NEW p \in Pointers, x = ptr[p] PROVE FALSE
          <6>1. x # NULL
            BY <5>1, ParserAssumption
          <6> QED BY <5>2, <6>1 DEF Unreached, Used
        <5> QED BY <1>0, <5>1, <5>2 DEF LineBlocks
      <4> QED BY <4>1, <4>2
    <3> QED BY <2>4, <2>5, <3>1
  <2>7. IsFiniteSet(Unreached') /\ Cardinality(Unreached') = failed + 1
    BY <2>6, FS_AddElement DEF HeapInv
  <2>8. open' = open /\ open /\ held' = held /\ failed' = failed + 1
    BY <1>2 DEF NextFails
  <2>9. "token" \in Pointers \ S
    BY DEF S, Pointers
  <2> QED BY <2>3, <2>5, <2>7, <2>8, <2>9 DEF HeapInv
<1>3. CASE GetNothing
  <2> DEFINE S == {"token"}
             new == <<>>
  <2>1. /\ heap' = Heap({ptr["token"]}, <<>>) /\ ptr' = [ptr EXCEPT !["token"] = NULL]
        /\ held' = Nothing /\ open /\ open' = open /\ failed' = failed
    BY <1>3 DEF GetNothing
  <2>2. /\ ptr' \in [Pointers -> Blocks \cup {NULL}] /\ ptr'["token"] = NULL
        /\ \A p \in Pointers \ S : ptr'[p] = ptr[p]
        /\ {ptr["token"]} = {ptr[p] : p \in S} /\ S \in SUBSET Pointers
    BY <1>0, <2>1 DEF HeapInv
  <2>3. /\ heap' = Heap({ptr["token"]}, new) /\ DOMAIN new = {}
        /\ \A p \in S : ptr'[p] = NULL
    BY <2>1, <2>2
  <2>4. "line" \in Pointers \ S /\ "buffer" \in Pointers \ S
    BY <1>0
  <2> HIDE DEF S, new
  <2>5. /\ DOMAIN heap' \subseteq Blocks
        /\ \A p \in Pointers : ptr'[p] # NULL => ptr'[p] \in DOMAIN heap'
        /\ \A p, q \in Pointers : ptr'[p] # NULL /\ ptr'[p] = ptr'[q] => p = q
        /\ Unreached' = Unreached \cup (DOMAIN new \ {ptr'[p] : p \in S})
    BY <2>2, <2>3, HeapChange
  <2>6. Unreached' = Unreached
    BY <2>3, <2>5
  <2> QED BY <2>1, <2>2, <2>4, <2>5, <2>6 DEF HeapInv
<1>4. CASE GetToken
  <2> DEFINE S == {"token"}
             word == SubSeq(Text, TokenStart(Text, pos),
                            TokenEnd(Text, TokenStart(Text, pos)) - 1)
  <2>0. PICK b \in Fresh({ptr["token"]}) :
          /\ heap' = Heap({ptr["token"]}, [x \in {b} |-> word])
          /\ ptr' = [ptr EXCEPT !["token"] = b]
          /\ held' = [at |-> b, text |-> word]
    BY <1>4 DEF GetToken
  <2> DEFINE new == [x \in {b} |-> word]
  <2>1. open /\ open' = open /\ failed' = failed /\ b \in Blocks /\ b # NULL
    BY <1>4, ParserAssumption DEF GetToken, Fresh
  <2> HIDE DEF word
  <2>2. /\ ptr' \in [Pointers -> Blocks \cup {NULL}] /\ ptr'["token"] = b
        /\ \A p \in Pointers \ S : ptr'[p] = ptr[p]
        /\ {ptr["token"]} = {ptr[p] : p \in S} /\ S \in SUBSET Pointers
    BY <1>0, <2>0, <2>1 DEF HeapInv
  <2>3. /\ heap' = Heap({ptr["token"]}, new) /\ DOMAIN new = {b} /\ new[b] = word
        /\ DOMAIN new \subseteq Fresh({ptr["token"]})
        /\ \A p \in S : ptr'[p] # NULL => ptr'[p] \in DOMAIN new
        /\ \A p, q \in S : ptr'[p] # NULL /\ ptr'[p] = ptr'[q] => p = q
        /\ DOMAIN new \ {ptr'[p] : p \in S} = {}
    BY <2>0, <2>2
  <2>4. "line" \in Pointers \ S /\ "buffer" \in Pointers \ S
    BY <1>0
  <2> HIDE DEF S, new
  <2>5. /\ DOMAIN heap' \subseteq Blocks
        /\ \A p \in Pointers : ptr'[p] # NULL => ptr'[p] \in DOMAIN heap'
        /\ \A p, q \in Pointers : ptr'[p] # NULL /\ ptr'[p] = ptr'[q] => p = q
        /\ \A x \in DOMAIN new : heap'[x] = new[x]
        /\ Unreached' = Unreached \cup (DOMAIN new \ {ptr'[p] : p \in S})
    BY <2>2, <2>3, HeapChange
  <2>6. Unreached' = Unreached /\ heap'[b] = word
    BY <2>3, <2>5
  <2> QED BY <2>0, <2>1, <2>2, <2>4, <2>5, <2>6 DEF HeapInv
<1>5. CASE Close
  <2> DEFINE new == <<>>
             F == {ptr[p] : p \in Pointers}
  <2>1. /\ heap' = Heap(F, new) /\ ptr' = [p \in Pointers |-> NULL] /\ ~open'
        /\ held' = held /\ failed' = failed
    BY <1>5 DEF Close
  <2>2. DOMAIN new = {}
    OBVIOUS
  <2> HIDE DEF new, F
  <2>3. /\ DOMAIN heap' \subseteq Blocks
        /\ \A p, q \in Pointers : ptr'[p] # NULL /\ ptr'[p] = ptr'[q] => p = q
        /\ Unreached' = Unreached \cup (DOMAIN new \ {ptr'[p] : p \in Pointers})
    BY <2>1, <2>2, HeapChange DEF F
  <2>4. Unreached' = Unreached
    BY <2>2, <2>3
  <2> QED BY <1>0, <2>1, <2>3, <2>4 DEF HeapInv
<1>6. CASE Closed \/ UNCHANGED vars
  BY <1>6 DEF Closed, vars, HeapInv, Unreached, Used
<1> QED BY <1>1, <1>2, <1>3, <1>4, <1>5, <1>6 DEF Next

LEMMA HeapAlways == Spec => []HeapInv
BY HeapStart, HeapStep, PTL DEF Spec

\* A token the client holds is live and keeps its text until the next call of
\* get_token, whichever addresses the heap gives out.
THEOREM HeldIsOwned == Spec => []HeldTokenLives
<1>1. HeapInv => HeldTokenLives
  BY DEF HeapInv, HeldTokenLives, Pointers
<1> QED BY <1>1, HeapAlways, PTL

\* The parser frees each block once and keeps no pointer to a freed one; what
\* it leaks is one buffer for each failing call of getline.
THEOREM BlocksAreAccounted == Spec => []HeapAccounted
<1>1. HeapInv => HeapAccounted
  BY DEF HeapInv, HeapAccounted, Used
<1> QED BY <1>1, HeapAlways, PTL

-----------------------------------------------------------------------------
(* Places of a text                                                        *)

\* A set of places that is not empty has a first and a last.
LEMMA FirstPlace ==
  ASSUME NEW P \in SUBSET Nat, P # {}
  PROVE  \E p \in P : \A q \in P : p <= q
<1>1. PICK p \in P : \A q \in P : ~(<<q, p>> \in OpToRel(<, Nat))
  BY NatLessThanWellFounded, WFMin
<1>2. \A q \in P : q < p => <<q, p>> \in OpToRel(<, Nat)
  BY DEF OpToRel
<1>3. \A q \in P : q \in Nat /\ ~(q < p)
  BY <1>1, <1>2
<1> QED BY <1>3

LEMMA LastPlace ==
  ASSUME NEW n \in Nat, NEW P \in SUBSET (0 .. n), P # {}
  PROVE  \E p \in P : \A q \in P : q <= p
<1> DEFINE back == {n - p : p \in P}
<1>1. back \in SUBSET Nat /\ back # {}
  OBVIOUS
<1>2. PICK b \in back : \A c \in back : b <= c
  BY <1>1, FirstPlace
<1>3. PICK p \in P : b = n - p
  OBVIOUS
<1>4. \A q \in P : n - q \in back
  OBVIOUS
<1>5. \A q \in P : n - p <= n - q
  BY <1>2, <1>3, <1>4
<1>6. \A q \in P : q <= p
  BY <1>5
<1> QED BY <1>6

LEMMA TextType ==
  ASSUME NEW text \in Texts
  PROVE  /\ Len(text) \in Nat /\ DOMAIN text = 1 .. Len(text)
         /\ \A i \in 1 .. Len(text) : text[i] \in Chars
<1>1. PICK n \in 0 .. MaxChars : text \in [1 .. n -> Chars]
  BY DEF Texts
<1>2. n \in Nat
  BY <1>1, ParserAssumption
<1>3. text \in Seq(Chars) /\ Len(text) = n
  BY <1>1, <1>2
<1> QED BY <1>1, <1>2, <1>3

\* The place FirstFrom finds is the first of the characters looked for, or the
\* end of the text.
LEMMA FirstFromIs ==
  ASSUME NEW text \in Texts, NEW p \in 1 .. Len(text) + 1, NEW stop
  PROVE  LET q == FirstFrom(text, p, stop)
         IN  /\ q \in p .. Len(text) + 1
             /\ q = Len(text) + 1 \/ text[q] \in stop
             /\ \A r \in p .. q - 1 : text[r] \notin stop
<1>0. Len(text) \in Nat
  BY TextType
<1> DEFINE P == {q \in p .. Len(text) + 1 : q = Len(text) + 1 \/ text[q] \in stop}
<1>1. P \in SUBSET Nat /\ Len(text) + 1 \in P
  BY <1>0
<1>2. PICK q \in P : \A r \in P : q <= r
  BY <1>1, FirstPlace
<1>3. \A r \in p .. q - 1 : text[r] \notin stop
  <2>1. SUFFICES ASSUME NEW r \in p .. q - 1, text[r] \in stop PROVE FALSE
    OBVIOUS
  <2>2. r \in P /\ r < q
    BY <1>0, <2>1
  <2> QED BY <1>0, <1>2, <2>2
<1> QED BY <1>2, <1>3 DEF FirstFrom

\* Where a word starts, and where none does.
LEMMA StartsType ==
  ASSUME NEW text \in Texts
  PROVE  /\ Starts(text) \in SUBSET (1 .. Len(text)) /\ IsFiniteSet(Starts(text))
         /\ Cardinality(Starts(text)) \in Nat
<1>1. Starts(text) \in SUBSET (1 .. Len(text))
  BY TextType DEF Starts
<1>2. IsFiniteSet(1 .. Len(text))
  BY TextType, FS_Interval
<1> QED BY <1>1, <1>2, FS_Subset, FS_CardinalityType

\* Where a call of get_token may leave the line.
Between(text, p) ==
  /\ p \in 1 .. Len(text) + 1
  /\ p = 1 \/ p = Len(text) + 1 \/ text[p] = "space"

\* The words that start before a place.
Before(text, p) == {i \in Starts(text) : i < p}

LEMMA SkipBlanks ==
  ASSUME NEW text \in Texts, NEW p, Between(text, p)
  PROVE  LET q == TokenStart(text, p)
         IN  /\ q \in p .. Len(text) + 1
             /\ Before(text, q) = Before(text, p)
             /\ q <= Len(text) => q \in Starts(text) /\ text[q] = "x"
<1> DEFINE q == TokenStart(text, p)
<1>0. Len(text) \in Nat /\ DOMAIN text = 1 .. Len(text)
  BY TextType
<1>1. /\ q \in p .. Len(text) + 1
      /\ q = Len(text) + 1 \/ text[q] \in Chars \ {"space", "tab"}
      /\ \A r \in p .. q - 1 : text[r] \notin Chars \ {"space", "tab"}
  BY FirstFromIs DEF TokenStart, Between
<1> HIDE DEF q
<1>2. Before(text, q) = Before(text, p)
  <2>1. \A i \in Starts(text) : i \in 1 .. Len(text) /\ text[i] = "x"
    BY <1>0 DEF Starts
  <2>2. \A i \in Starts(text) : i < q => i < p
    BY <1>0, <1>1, <2>1 DEF Chars, Between
  <2> QED BY <1>0, <1>1, <2>1, <2>2 DEF Before, Between
<1>3. ASSUME q <= Len(text) PROVE q \in Starts(text) /\ text[q] = "x"
  <2>1. text[q] = "x" /\ q \in 1 .. Len(text)
    BY <1>0, <1>1, <1>3 DEF Chars, Between
  <2>2. \A r \in p .. q - 1 : text[r] = "space" \/ text[r] = "tab"
    <3>1. \A r \in p .. q - 1 : r \in 1 .. Len(text)
      BY <1>0, <1>1, <1>3 DEF Between
    <3> QED BY <1>1, <3>1, TextType
  <2> DEFINE stops == {j \in 0 .. q - 1 : j = 0 \/ text[j] = "space"}
  <2>3. PICK j \in stops : \A k \in stops : k <= j
    <3>1. 0 \in stops /\ stops \in SUBSET (0 .. q - 1) /\ q - 1 \in Nat
      BY <2>1
    <3> QED BY <3>1, LastPlace
  <2>4. \A k \in j + 1 .. q - 1 : text[k] = "tab"
    <3> SUFFICES ASSUME NEW k \in j + 1 .. q - 1 PROVE text[k] = "tab"
      OBVIOUS
    <3>1. k \in 1 .. q - 1 /\ text[k] # "space"
      BY <1>0, <2>1, <2>3
    <3>2. k >= p
      <4>1. CASE p = 1
        BY <3>1, <4>1
      <4>2. CASE p # 1
        <5>1. text[p] = "space" /\ p \in 1 .. Len(text)
          BY <1>0, <1>1, <1>3, <4>2 DEF Between
        <5>2. p # q
          BY <2>1, <5>1
        <5>3. p \in stops
          BY <1>0, <1>1, <5>1, <5>2
        <5> QED BY <2>3, <5>1, <5>3
      <4> QED BY <4>1, <4>2
    <3> QED BY <2>1, <2>2, <3>1, <3>2
  <2> QED BY <1>0, <2>1, <2>3, <2>4 DEF Starts
<1> QED BY <1>1, <1>2, <1>3 DEF q

LEMMA SkipWord ==
  ASSUME NEW text \in Texts, NEW p \in Starts(text)
  PROVE  LET q == TokenEnd(text, p)
         IN  /\ Between(text, q) /\ q > p
             /\ Before(text, q) = Before(text, p) \cup {p}
             /\ SubSeq(text, p, q - 1) = WordFrom(text, p)
             /\ SubSeq(text, p, q - 1) \in Seq(Chars)
<1> DEFINE q == TokenEnd(text, p)
<1>0. Len(text) \in Nat /\ p \in 1 .. Len(text) /\ text[p] = "x"
  BY TextType DEF Starts
<1>1. /\ q \in p .. Len(text) + 1
      /\ q = Len(text) + 1 \/ text[q] = "space"
      /\ \A r \in p .. q - 1 : text[r] # "space"
  BY <1>0, FirstFromIs DEF TokenEnd
<1> HIDE DEF q
<1>2. Between(text, q) /\ q > p
  BY <1>0, <1>1 DEF Between
<1>3. Before(text, q) = Before(text, p) \cup {p}
  <2>1. \A i \in Starts(text) : i \in Nat
    BY StartsType
  <2>2. ASSUME NEW i \in Starts(text), p < i, i < q PROVE FALSE
    <3>1. PICK j \in 0 .. i - 1 : /\ j = 0 \/ text[j] = "space"
                                 /\ \A k \in j + 1 .. i - 1 : text[k] = "tab"
      BY DEF Starts
    <3>2. i \in Nat
      BY <2>1
    <3>3. CASE j < p
      <4>1. p \in j + 1 .. i - 1
        BY <1>0, <2>2, <3>2, <3>3
      <4> QED BY <1>0, <3>1, <4>1
    <3>4. CASE j >= p
      <4>1. j \in p .. q - 1 /\ j # 0
        BY <1>0, <1>1, <2>2, <3>2, <3>4
      <4> QED BY <1>1, <3>1, <4>1
    <3> QED BY <1>0, <3>3, <3>4
  <2>3. q \in Nat /\ p \in Nat
    BY <1>0, <1>1
  <2>4. \A i \in Starts(text) : i < q <=> i < p \/ i = p
    BY <1>2, <2>1, <2>2, <2>3
  <2> QED BY <2>4 DEF Before
<1>4. SubSeq(text, p, q - 1) = WordFrom(text, p)
  <2> DEFINE ends == {j \in p .. Len(text) : \A k \in p .. j : text[k] # "space"}
  <2>1. ends = p .. q - 1
    <3>1. ASSUME NEW j \in p .. q - 1 PROVE j \in ends
      BY <1>0, <1>1, <3>1
    <3>2. ASSUME NEW j \in ends, j > q - 1 PROVE FALSE
      <4>1. q \in p .. j /\ q # Len(text) + 1
        BY <1>0, <1>1, <3>2
      <4> QED BY <1>1, <3>2, <4>1
    <3> QED BY <1>0, <1>1, <3>1, <3>2
  <2> HIDE DEF ends
  <2>2. Cardinality(ends) = q - p
    <3>1. p \in Int /\ q - 1 \in Int
      BY <1>0, <1>1
    <3>2. Cardinality(p .. q - 1) = IF p > q - 1 THEN 0 ELSE (q - 1) - p + 1
      BY <3>1, FS_Interval
    <3> QED BY <1>0, <1>1, <1>2, <2>1, <3>2
  <2>3. p + Cardinality(ends) - 1 = q - 1
    BY <1>0, <1>1, <2>2
  <2> QED BY <2>3 DEF WordFrom, ends
<1>5. SubSeq(text, p, q - 1) \in Seq(Chars)
  <2>1. \A i \in p .. q - 1 : text[i] \in Chars
    BY <1>0, <1>1, TextType
  <2> QED BY <1>0, <1>1, <2>1, SubSeqProperties
<1> QED BY <1>2, <1>3, <1>4, <1>5 DEF q

\* The word that starts at a place, by its rank.
LEMMA WordByRank ==
  ASSUME NEW text \in Texts, NEW p \in Starts(text)
  PROVE  /\ Rank(text, p) = Cardinality(Before(text, p)) + 1
         /\ Rank(text, p) \in 1 .. Cardinality(Starts(text))
         /\ Words(text)[Rank(text, p)] = WordFrom(text, p)
<1> DEFINE UpTo(i) == {j \in Starts(text) : j <= i}
<1>0. /\ IsFiniteSet(Starts(text)) /\ Starts(text) \in SUBSET Nat
      /\ Cardinality(Starts(text)) \in Nat
  BY StartsType
<1>1. \A i : UpTo(i) \in SUBSET Starts(text)
  OBVIOUS
<1>2. \A i : IsFiniteSet(UpTo(i)) /\ Cardinality(UpTo(i)) \in Nat
  BY <1>0, <1>1, FS_Subset, FS_CardinalityType
<1>3. Rank(text, p) = Cardinality(Before(text, p)) + 1
  <2>1. UpTo(p) = Before(text, p) \cup {p} /\ p \notin Before(text, p)
    BY <1>0 DEF Before
  <2>2. IsFiniteSet(Before(text, p))
    BY <1>0, FS_Subset DEF Before
  <2> QED BY <2>1, <2>2, FS_AddElement DEF Rank
<1>4. Rank(text, p) \in 1 .. Cardinality(Starts(text))
  <2>1. Cardinality(Before(text, p)) \in Nat
    BY <1>0, FS_Subset, FS_CardinalityType DEF Before
  <2>2. Cardinality(UpTo(p)) <= Cardinality(Starts(text))
    BY <1>0, <1>1, FS_Subset
  <2> QED BY <1>0, <1>3, <2>1, <2>2 DEF Rank
<1>5. ASSUME NEW i \in Starts(text), NEW j \in Starts(text), i < j,
             Rank(text, i) = Rank(text, j)
      PROVE  FALSE
  <2>1. UpTo(i) \in SUBSET UpTo(j) /\ j \in UpTo(j) /\ j \notin UpTo(i)
    BY <1>0, <1>5
  <2>2. Cardinality(UpTo(i)) = Cardinality(UpTo(j))
    BY <1>5 DEF Rank
  <2> QED BY <1>2, <2>1, <2>2, FS_Subset
<1>6. ASSUME NEW i \in Starts(text), Rank(text, i) = Rank(text, p) PROVE i = p
  BY <1>0, <1>5, <1>6
<1>7. (CHOOSE i \in Starts(text) : Rank(text, i) = Rank(text, p)) = p
  BY <1>6
<1> QED BY <1>3, <1>4, <1>7 DEF Words
-----------------------------------------------------------------------------
(* The tokens of a line                                                    *)

\* While a line is read, it is at a place where get_token may begin, and the
\* tokens delivered are the words that start before it.
Reads == open /\ ptr["line"] # NULL
LineInv ==
  /\ rest \in Seq(Texts)
  /\ Reads =>
       /\ Text \in Texts /\ Between(Text, pos)
       /\ given \in Seq(Seq(Chars))
       /\ Len(given) = Cardinality(Before(Text, pos))
       /\ \A n \in 1 .. Len(given) : given[n] = Words(Text)[n]

LEMMA LineStart == Init => LineInv
<1> SUFFICES ASSUME Init PROVE LineInv
  OBVIOUS
<1>1. PICK n \in 0 .. MaxLines : rest \in [1 .. n -> Texts]
  BY DEF Init, Files
<1>2. ~Reads
  BY DEF Init, Reads, Pointers
<1> QED BY <1>1, <1>2, ParserAssumption DEF LineInv

\* get_token leaves the text of the line where it is.
LEMMA TextStays ==
  ASSUME HeapInv, Reads, NEW new,
         DOMAIN new \subseteq Fresh({ptr["token"]}),
         heap' = Heap({ptr["token"]}, new), ptr'["buffer"] = ptr["buffer"]
  PROVE  Text' = Text
<1>1. /\ ptr["buffer"] # NULL /\ ptr["buffer"] \in DOMAIN heap
      /\ ptr["buffer"] # ptr["token"]
  BY DEF HeapInv, Reads, Pointers
<1>2. ptr["buffer"] \in Live({ptr["token"]}) /\ ptr["buffer"] \notin DOMAIN new
  BY <1>1 DEF Live, Fresh
<1> QED BY <1>2 DEF Heap, Text

LEMMA LineStep == HeapInv /\ LineInv /\ [Next]_vars => LineInv'
<1> SUFFICES ASSUME HeapInv, LineInv, [Next]_vars PROVE LineInv'
  OBVIOUS
<1>1. CASE NextLine
  <2> DEFINE text == Head(rest)
  <2>1. text \in Texts /\ Tail(rest) \in Seq(Texts)
    BY <1>1, HeadTailProperties DEF NextLine, LineInv
  <2>2. rest' = Tail(rest) /\ pos' = 1 /\ given' = <<>>
    BY <1>1 DEF NextLine
  <2>3. Text' = text
    <3>1. PICK b \in Fresh(LineBlocks), l \in Fresh(LineBlocks) :
            /\ heap' = Heap(LineBlocks,
                            [x \in {b, l} |-> IF x = b THEN Head(rest) ELSE <<"Line">>])
            /\ ptr' = [ptr EXCEPT !["line"] = l, !["buffer"] = b]
      BY <1>1 DEF NextLine
    <3>2. ptr'["buffer"] = b
      BY <3>1 DEF HeapInv, Pointers
    <3> QED BY <3>1, <3>2 DEF Heap, Text
  <2> HIDE DEF text
  <2>4. Between(text, 1)
    BY <2>1, TextType DEF Between
  <2>5. Before(text, 1) = {}
    BY <2>1, StartsType DEF Before
  <2>6. <<>> \in Seq(Seq(Chars)) /\ Len(<<>>) = 0
    OBVIOUS
  <2>7. Cardinality(Before(text, 1)) = 0
    BY <2>5, FS_EmptySet
  <2> QED BY <2>1, <2>2, <2>3, <2>4, <2>6, <2>7 DEF LineInv
<1>2. CASE NextFails
  <2>1. ~Reads' /\ rest' = rest
    BY <1>2 DEF NextFails, Reads, HeapInv, Pointers
  <2> QED BY <2>1 DEF LineInv
<1>3. CASE GetNothing
  <2>1. /\ rest' = rest /\ given' = given /\ open' = open
        /\ ptr'["line"] = ptr["line"] /\ ptr'["buffer"] = ptr["buffer"]
    BY <1>3 DEF GetNothing, HeapInv, Pointers
  <2>2. CASE ~Reads
    BY <2>1, <2>2 DEF LineInv, Reads
  <2>3. CASE Reads
    <3>1. Text' = Text
      <4>1. DOMAIN <<>> \subseteq Fresh({ptr["token"]})
        OBVIOUS
      <4> QED BY <1>3, <2>1, <2>3, <4>1, TextStays DEF GetNothing
    <3>2. pos' = TokenStart(Text, pos) /\ pos' > Len(Text)
      BY <1>3, <2>3 DEF GetNothing, Reads
    <3>3. Text \in Texts /\ Between(Text, pos) /\ Len(Text) \in Nat
      BY <2>3, TextType DEF LineInv
    <3>4. pos' \in pos .. Len(Text) + 1 /\ Before(Text, pos') = Before(Text, pos)
      BY <3>2, <3>3, SkipBlanks
    <3>5. Between(Text, pos')
      BY <3>2, <3>3, <3>4 DEF Between
    <3> QED BY <2>1, <2>3, <3>1, <3>3, <3>4, <3>5 DEF LineInv
  <2> QED BY <2>2, <2>3
<1>4. CASE GetToken
  <2> DEFINE text == Text
             p == TokenStart(text, pos)
             q == TokenEnd(text, p)
             word == SubSeq(text, p, q - 1)
  <2>1. /\ Reads /\ p <= Len(text) /\ pos' = q /\ given' = Append(given, word)
        /\ rest' = rest
    BY <1>4 DEF GetToken, Reads
  <2>2. Text' = text
    <3>1. PICK b \in Fresh({ptr["token"]}) :
            /\ heap' = Heap({ptr["token"]}, [x \in {b} |-> word])
            /\ ptr' = [ptr EXCEPT !["token"] = b]
      BY <1>4 DEF GetToken
    <3> DEFINE new == [x \in {b} |-> word]
    <3>2. ptr'["buffer"] = ptr["buffer"]
      BY <3>1 DEF HeapInv, Pointers
    <3>3. DOMAIN new \subseteq Fresh({ptr["token"]}) /\ heap' = Heap({ptr["token"]}, new)
      BY <3>1
    <3> HIDE DEF new
    <3> QED BY <2>1, <3>2, <3>3, TextStays
  <2>3. /\ text \in Texts /\ Between(text, pos) /\ given \in Seq(Seq(Chars))
        /\ Len(given) = Cardinality(Before(text, pos))
        /\ \A n \in 1 .. Len(given) : given[n] = Words(text)[n]
        /\ rest \in Seq(Texts)
    BY <2>1 DEF LineInv
  <2> HIDE DEF text
  <2>4. /\ p \in pos .. Len(text) + 1
        /\ Before(text, p) = Before(text, pos)
        /\ p <= Len(text) => p \in Starts(text)
    BY <2>3, SkipBlanks
  <2>5. Len(text) \in Nat /\ pos \in 1 .. Len(text) + 1
    BY <2>3, TextType DEF Between
  <2>6. p \in Starts(text)
    BY <2>1, <2>4
  <2>7. /\ Between(text, q) /\ Before(text, q) = Before(text, p) \cup {p}
        /\ word = WordFrom(text, p) /\ word \in Seq(Chars)
    BY <2>3, <2>6, SkipWord
  <2>8. /\ Rank(text, p) = Cardinality(Before(text, p)) + 1
        /\ Words(text)[Rank(text, p)] = WordFrom(text, p)
    BY <2>3, <2>6, WordByRank
  <2> HIDE DEF word, q, p
  <2>9. Cardinality(Before(text, q)) = Cardinality(Before(text, p)) + 1
    <3>1. IsFiniteSet(Before(text, p)) /\ p \notin Before(text, p)
      <4>1. Before(text, p) \in SUBSET Starts(text) /\ \A i \in Starts(text) : i \in Nat
        BY <2>3, StartsType DEF Before
      <4> QED BY <2>3, <2>4, <2>5, <4>1, StartsType, FS_Subset DEF Before
    <3> QED BY <2>7, <3>1, FS_AddElement
  <2>10. /\ given' \in Seq(Seq(Chars)) /\ Len(given') = Len(given) + 1
         /\ \A n \in 1 .. Len(given) : given'[n] = given[n]
         /\ given'[Len(given) + 1] = word
    BY <2>1, <2>3, <2>7, AppendProperties
  <2>11. Len(given) \in Nat /\ Rank(text, p) = Len(given) + 1
    BY <2>3, <2>4, <2>8
  <2>12. \A n \in 1 .. Len(given') : given'[n] = Words(text)[n]
    <3>1. \A n \in 1 .. Len(given') : n \in 1 .. Len(given) \/ n = Len(given) + 1
      BY <2>10, <2>11
    <3>2. given'[Len(given) + 1] = Words(text)[Len(given) + 1]
      BY <2>7, <2>8, <2>10, <2>11
    <3> QED BY <2>3, <2>10, <3>1, <3>2
  <2>13. Len(given') = Cardinality(Before(text, q))
    BY <2>3, <2>4, <2>9, <2>10
  <2> QED BY <2>1, <2>2, <2>3, <2>7, <2>10, <2>12, <2>13 DEF LineInv
<1>5. CASE Close
  <2>1. ~Reads' /\ rest' = rest
    BY <1>5 DEF Close, Reads
  <2> QED BY <2>1 DEF LineInv
<1>6. CASE Closed \/ UNCHANGED vars
  <2>1. Reads' = Reads /\ Text' = Text /\ rest' = rest /\ pos' = pos /\ given' = given
    BY <1>6 DEF Closed, vars, Reads, Text
  <2> QED BY <2>1 DEF LineInv
<1> QED BY <1>1, <1>2, <1>3, <1>4, <1>5, <1>6 DEF Next

LEMMA LineAlways == Spec => []LineInv
BY LineStart, LineStep, HeapAlways, PTL DEF Spec

\* get_token delivers the words of a line in order, none twice and none left
\* out, and NULL only after the last (Parser.cpp:40-57).
THEOREM DeliversTheWords == Spec => []TokensAreWords
<1>1. LineInv => TokensAreWords
  <2> SUFFICES ASSUME LineInv, Reads
               PROVE  /\ IsPrefix(given, Words(Text))
                      /\ pos > Len(Text) => given = Words(Text)
    BY DEF TokensAreWords, Reads
  <2> DEFINE text == Text
             words == Words(text)
  <2>1. /\ text \in Texts /\ given \in Seq(Seq(Chars)) /\ Between(text, pos)
        /\ Len(given) = Cardinality(Before(text, pos))
        /\ \A n \in 1 .. Len(given) : given[n] = words[n]
    BY DEF LineInv
  <2>2. /\ Len(text) \in Nat /\ Cardinality(Starts(text)) \in Nat
        /\ IsFiniteSet(Starts(text)) /\ Starts(text) \in SUBSET (1 .. Len(text))
    BY <2>1, TextType, StartsType
  <2>3. words = [n \in 1 .. Cardinality(Starts(text)) |-> words[n]]
    BY DEF Words
  <2>4. Len(given) \in Nat /\ Len(given) <= Cardinality(Starts(text))
    BY <2>1, <2>2, FS_Subset DEF Before
  <2>5. pos > Len(text) => Len(given) = Cardinality(Starts(text))
    <3>1. ASSUME pos > Len(text) PROVE Before(text, pos) = Starts(text)
      BY <2>1, <2>2, <3>1 DEF Before, Between
    <3> QED BY <2>1, <3>1
  <2> HIDE DEF text, words
  <2>6. Len(words) = Cardinality(Starts(text))
    BY <2>2, <2>3
  <2>7. SubSeq(given, 1, Len(given)) = SubSeq(words, 1, Len(given))
    BY <2>1, <2>4
  <2>8. given = [n \in 1 .. Len(given) |-> given[n]]
    BY <2>1
  <2>9. pos > Len(text) => given = words
    BY <2>1, <2>3, <2>5, <2>8
  <2> QED BY <2>4, <2>6, <2>7, <2>9 DEF IsPrefix, text, words
<1> QED BY <1>1, LineAlways, PTL
=============================================================================
