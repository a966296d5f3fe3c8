--------------------------------- MODULE Parser ---------------------------------
(***************************************************************************)
(* Class Parser and struct Line (c/common/Parser.cpp): a file is read line *)
(* by line, a line token by token.  A client holds a pointer to a token    *)
(* while it calls on, so the model has a heap: every block is allocated,   *)
(* filled and freed where the code does it, and a freed address may be     *)
(* given out again.                                                        *)
(*                                                                         *)
(* A character is a space, a tab or anything else.                         *)
(***************************************************************************)
EXTENDS Integers, Sequences, FiniteSets, SequencesExt

CONSTANTS
  Blocks, NULL, \* the addresses of the heap, and none
  MaxChars,     \* longest line
  MaxLines,     \* longest file
  MaxFailures   \* most calls of next at the end of the file

ASSUME ParserAssumption ==
  /\ NULL \notin Blocks
  /\ MaxChars \in Nat /\ MaxLines \in Nat /\ MaxFailures \in Nat \ {0}

Chars == {"space", "tab", "x"}
Texts == UNION {[1..n -> Chars] : n \in 0..MaxChars}
Files == UNION {[1..n -> Texts] : n \in 0..MaxLines}

VARIABLES
  rest,         \* the lines fp has not delivered yet
  heap,         \* the live blocks and what is in them
  ptr,          \* the fields filename, line, line->line (buffer) and token
  pos,          \* line->token, as a position in the buffer
  open,         \* from the constructor to the destructor
  held,         \* the token the client got last: the pointer and its text
  given,        \* the tokens it got of this line
  failed        \* calls of next that found the end of the file

vars == <<rest, heap, ptr, pos, open, held, given, failed>>

Pointers == {"filename", "line", "buffer", "token"}
Nothing  == [at |-> NULL, text |-> <<>>]
Text     == heap[ptr["buffer"]]

-----------------------------------------------------------------------------
(* Line::get_token                                                         *)

FirstFrom(text, p, stop) ==
  CHOOSE q \in p .. Len(text) + 1 :
    /\ q = Len(text) + 1 \/ text[q] \in stop
    /\ \A r \in p .. q - 1 : text[r] \notin stop

\* Mutant: a tab ends a token, as it starts none.
TokenEndTab(text, p) == FirstFrom(text, p, {"space", "tab"})

TokenStart(text, p) == FirstFrom(text, p, Chars \ {"space", "tab"})
TokenEnd(text, p)   == FirstFrom(text, p, {"space"})

-----------------------------------------------------------------------------
(* Parser                                                                  *)

\* The heap when the blocks of freed are free and those of new are filled.
Live(freed)       == DOMAIN heap \ freed
Heap(freed, new)  == [b \in Live(freed) \cup DOMAIN new |->
                        IF b \in DOMAIN new THEN new[b] ELSE heap[b]]
Fresh(freed)      == Blocks \ Live(freed)

\* The constructor has copied the name of the file.
Init ==
  /\ rest \in Files
  /\ \E b \in Blocks :
       /\ heap = [x \in {b} |-> <<"name">>]
       /\ ptr = [p \in Pointers |-> IF p = "filename" THEN b ELSE NULL]
  /\ pos = 1 /\ open = TRUE
  /\ held = Nothing /\ given = <<>> /\ failed = 0

\* Mutants: next frees the token too; the destructor of Line forgets the buffer.
TokenToo   == {ptr["line"], ptr["buffer"], ptr["token"]}
BufferLeft == {ptr["line"]}

\* delete this->line, the destructor of Line included.
LineBlocks == {ptr["line"], ptr["buffer"]}

\* next: the old line is freed, getline fills a new buffer.
NextLine ==
  /\ open /\ rest # <<>> /\ rest' = Tail(rest)
  /\ \E b, l \in Fresh(LineBlocks) :
       /\ b # l
       /\ heap' = Heap(LineBlocks, [x \in {b, l} |-> IF x = b THEN Head(rest) ELSE <<"Line">>])
       /\ ptr' = [ptr EXCEPT !["line"] = l, !["buffer"] = b]
  /\ pos' = 1 /\ given' = <<>>
  /\ UNCHANGED <<open, held, failed>>

\* next at the end of the file: getline has allocated a buffer nevertheless,
\* and nobody keeps the pointer.
NextFails ==
  /\ open /\ rest = <<>> /\ failed < MaxFailures
  /\ \E b \in Fresh(LineBlocks) : heap' = Heap(LineBlocks, [x \in {b} |-> <<>>])
  /\ ptr' = [ptr EXCEPT !["line"] = NULL, !["buffer"] = NULL]
  /\ failed' = failed + 1 /\ given' = <<>>
  /\ UNCHANGED <<rest, pos, open, held>>

\* get_token, and get_long, which converts what it returns: the old token is
\* freed; no line or nothing but blanks gives NULL.
GetNothing ==
  /\ open
  /\ \/ ptr["line"] = NULL /\ pos' = pos
     \/ /\ ptr["line"] # NULL
        /\ pos' = TokenStart(Text, pos) /\ pos' > Len(Text)
  /\ heap' = Heap({ptr["token"]}, <<>>)
  /\ ptr' = [ptr EXCEPT !["token"] = NULL]
  /\ held' = Nothing
  /\ UNCHANGED <<rest, open, given, failed>>

GetToken ==
  /\ open /\ ptr["line"] # NULL
  /\ LET p == TokenStart(Text, pos)
         q == TokenEnd(Text, p)
         word == SubSeq(Text, p, q - 1)
     IN  /\ p <= Len(Text)
         /\ pos' = q
         /\ \E b \in Fresh({ptr["token"]}) :
              /\ heap' = Heap({ptr["token"]}, [x \in {b} |-> word])
              /\ ptr' = [ptr EXCEPT !["token"] = b]
              /\ held' = [at |-> b, text |-> word]
         /\ given' = Append(given, word)
  /\ UNCHANGED <<rest, open, failed>>

\* The destructor frees the name, the line and the token.
Close ==
  /\ open /\ open' = FALSE
  /\ heap' = Heap({ptr[p] : p \in Pointers}, <<>>)
  /\ ptr' = [p \in Pointers |-> NULL]
  /\ UNCHANGED <<rest, pos, held, given, failed>>

Closed == ~open /\ UNCHANGED vars

Next == NextLine \/ NextFails \/ GetNothing \/ GetToken \/ Close \/ Closed

Spec == Init /\ [][Next]_vars

-----------------------------------------------------------------------------
(* Properties                                                              *)

\* The words of a text, by their places: a word starts at a character that is
\* no blank and has only tabs between it and the space before it, or the start
\* of the line; it ends at the next space or the end of the line.
Starts(text) ==
  {i \in DOMAIN text :
     /\ text[i] = "x"
     /\ \E j \in 0 .. i - 1 : /\ j = 0 \/ text[j] = "space"
                              /\ \A k \in j + 1 .. i - 1 : text[k] = "tab"}
WordFrom(text, i) ==
  LET ends == {j \in i .. Len(text) : \A k \in i .. j : text[k] # "space"}
  IN  SubSeq(text, i, i + Cardinality(ends) - 1)
Rank(text, i) == Cardinality({j \in Starts(text) : j <= i})
Words(text) ==
  [n \in 1 .. Cardinality(Starts(text)) |->
     WordFrom(text, CHOOSE i \in Starts(text) : Rank(text, i) = n)]

\* The calls of get_token on a line deliver its words in order, none twice and
\* none left out, and NULL only after the last (Parser.cpp:40-57).
TokensAreWords ==
  open /\ ptr["line"] # NULL =>
    /\ IsPrefix(given, Words(Text))
    /\ pos > Len(Text) => given = Words(Text)

\* A token stays the client's until its next call of get_token or the
\* destructor: next frees the line it was cut from, and the block given out
\* next may be any freed one, but the token's still holds its text
\* (Parser.cpp:87-110).
HeldTokenLives ==
  open /\ held # Nothing => held.at \in DOMAIN heap /\ heap[held.at] = held.text

\* No pointer of the parser dangles, no two share a block, and the blocks no
\* pointer reaches are as many as the failing calls of getline, one each: they
\* outlive the destructor (Parser.cpp:66-110).
Used == {p \in Pointers : ptr[p] # NULL}
Unreached == DOMAIN heap \ {ptr[p] : p \in Used}
HeapAccounted ==
  /\ \A p \in Used : ptr[p] \in DOMAIN heap
  /\ \A p, q \in Used : ptr[p] = ptr[q] => p = q
  /\ Cardinality(Unreached) = failed
=============================================================================
