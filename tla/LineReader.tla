----------------------------- MODULE LineReader -----------------------------
(***************************************************************************)
(* lineReader.readLine / readLines (properties/properties.go): the        *)
(* logical-line splitter of the properties grammar.  The input arrives     *)
(* through io.Reader.Read into an 8192-byte buffer, so a Read may return   *)
(* any nonempty piece of what is left; the model cuts the input into       *)
(* arbitrary chunks and follows readLine's loop one byte, or one Read, per *)
(* step.  Bytes are their numeric values (byte & 0xFF).                    *)
(***************************************************************************)
EXTENDS Naturals, Sequences, FiniteSets, SequencesExt

CONSTANTS
  Alphabet,   \* the byte values inputs are made of
  MaxLen,     \* the longest input
  MaxReads    \* the most Reads that return data

ASSUME LineReaderAssumption ==
  Alphabet \subseteq 0..255 /\ MaxLen \in Nat /\ MaxReads \in Nat \ {0}

SP == 32   TAB == 9   FF == 12   LF == 10   CR == 13   BSL == 92
WS == {SP, TAB, FF}
EOL == {LF, CR}
CommentStart == {35, 33}   \* '#', '!'

(* An input and the chunks successive Reads return: cut at the positions K. *)
Chunking(s, K) ==
  LET cuts == SetToSortSeq(K \cup {0, Len(s)}, <)
  IN [i \in 1..Len(cuts) - 1 |-> SubSeq(s, cuts[i] + 1, cuts[i + 1])]

VARIABLES
  src,       \* the whole input (for the properties only)
  chunks,    \* what the reader will still return, one Read at a time
  buf,       \* r.byteBuf: the last chunk read
  off,       \* off: bytes of buf consumed
  limit,     \* limit / r.inLimit: length of the last Read (0 at EOF)
  lineBuf,   \* r.lineBuf
  skipWS,    \* skipWhiteSpace
  appended,  \* appendedLineBegin
  precBS,    \* precedingBackslash
  ch,        \* c, the terminator being handled at "eol"
  lines,     \* result of readLines so far
  pc         \* "loop", "comment", "eol_read", "eol", "done"

rvars == <<src, chunks, buf, off, limit, lineBuf, skipWS, appended, precBS,
           ch, lines, pc>>

Init ==
  /\ src \in BoundedSeq(Alphabet, MaxLen)
  /\ \E K \in SUBSET (1..Len(src) - 1) :
       Cardinality(K) < MaxReads /\ chunks = Chunking(src, K)
  /\ buf = <<>> /\ off = 0 /\ limit = 0
  /\ lineBuf = <<>> /\ skipWS = TRUE /\ appended = FALSE /\ precBS = FALSE
  /\ ch = LF /\ lines = <<>> /\ pc = "loop"

(* Local state of a fresh readLine call (r.inOff and r.inLimit are off    *)
(* and limit, which persist).                                              *)
NewLine == /\ lineBuf' = <<>> /\ skipWS' = TRUE /\ appended' = FALSE
           /\ precBS' = FALSE

(* The final line at EOF: a trailing continuation backslash is dropped.   *)
FinalLine == IF precBS THEN Front(lineBuf) ELSE lineBuf

(* r.r.Read(r.byteBuf) returns the next chunk.                             *)
ReadChunk(next) ==
  /\ chunks # <<>>
  /\ buf' = Head(chunks) /\ chunks' = Tail(chunks)
  /\ limit' = Len(Head(chunks)) /\ off' = 0
  /\ pc' = next

-----------------------------------------------------------------------------
(* if off >= limit { Read ... }: at EOF return the line if there is one.  *)
LoopRead ==
  /\ pc = "loop" /\ off >= limit
  /\ ReadChunk("loop")
  /\ UNCHANGED <<src, lineBuf, skipWS, appended, precBS, ch, lines>>

LoopEof ==
  /\ pc = "loop" /\ off >= limit /\ chunks = <<>>
  /\ limit' = 0 /\ pc' = "done"
  /\ lines' = IF lineBuf = <<>> THEN lines ELSE Append(lines, FinalLine)
  /\ UNCHANGED <<src, chunks, buf, off, lineBuf, skipWS, appended, precBS, ch>>

(* The byte c = byteBuf[off] being looked at, and whether the              *)
(* skipWhiteSpace block skips it.                                          *)
C == buf[off + 1]
Skipped == skipWS /\ (C \in WS \/ (~appended /\ C \in EOL))

SkipByte ==
  /\ pc = "loop" /\ off < limit /\ Skipped
  /\ off' = off + 1
  /\ UNCHANGED <<src, chunks, buf, limit, lineBuf, skipWS, appended, precBS,
                 ch, lines, pc>>

(* A byte past the skip block clears appendedLineBegin (and              *)
(* skipWhiteSpace, which only a blank terminator sets again).              *)
Taken == /\ pc = "loop" /\ off < limit /\ ~Skipped
         /\ off' = off + 1 /\ appended' = FALSE

(* '#' or '!' starting a logical line opens a comment.                      *)
CommentOpen ==
  /\ Taken /\ lineBuf = <<>> /\ C \in CommentStart
  /\ skipWS' = FALSE /\ pc' = "comment"
  /\ UNCHANGED <<src, chunks, buf, limit, lineBuf, precBS, ch, lines>>

AppendByte ==
  /\ Taken /\ ~(lineBuf = <<>> /\ C \in CommentStart) /\ C \notin EOL
  /\ lineBuf' = Append(lineBuf, C) /\ skipWS' = FALSE
  /\ precBS' = IF C = BSL THEN ~precBS ELSE FALSE
  /\ UNCHANGED <<src, chunks, buf, limit, ch, lines, pc>>

(* A terminator with nothing buffered: skip blanks again.                  *)
EolBlank ==
  /\ Taken /\ C \in EOL /\ lineBuf = <<>>
  /\ skipWS' = TRUE
  /\ UNCHANGED <<src, chunks, buf, limit, lineBuf, precBS, ch, lines, pc>>

(* A terminator ending buffered text; at the end of the buffer, Read first.*)
EolSeen ==
  /\ Taken /\ C \in EOL /\ lineBuf # <<>>
  /\ ch' = C /\ skipWS' = FALSE
  /\ pc' = IF off + 1 >= limit THEN "eol_read" ELSE "eol"
  /\ UNCHANGED <<src, chunks, buf, limit, lineBuf, precBS, lines>>

EolRead ==
  /\ pc = "eol_read"
  /\ ReadChunk("eol")
  /\ UNCHANGED <<src, lineBuf, skipWS, appended, precBS, ch, lines>>

EolEof ==
  /\ pc = "eol_read" /\ chunks = <<>>
  /\ limit' = 0 /\ off' = 0 /\ pc' = "done"
  /\ lines' = Append(lines, FinalLine)
  /\ UNCHANGED <<src, chunks, buf, lineBuf, skipWS, appended, precBS, ch>>

(* Faulty variant: the LF of an escaped CR LF is not skipped.             *)
ContinuationKeepLf ==
  /\ pc = "eol" /\ precBS
  /\ lineBuf' = Front(lineBuf)
  /\ skipWS' = TRUE /\ appended' = TRUE /\ precBS' = FALSE
  /\ pc' = "loop"
  /\ UNCHANGED <<src, chunks, buf, off, limit, ch, lines>>

(* An escaped terminator joins the next physical line (dropping the       *)
(* backslash and a LF after a CR); otherwise the logical line is returned. *)
Continuation ==
  /\ pc = "eol" /\ precBS
  /\ lineBuf' = Front(lineBuf)
  /\ skipWS' = TRUE /\ appended' = TRUE /\ precBS' = FALSE
  /\ off' = IF ch = CR /\ buf[off + 1] = LF THEN off + 1 ELSE off
  /\ pc' = "loop"
  /\ UNCHANGED <<src, chunks, buf, limit, ch, lines>>

LineDone ==
  /\ pc = "eol" /\ ~precBS
  /\ lines' = Append(lines, lineBuf)
  /\ NewLine /\ pc' = "loop"
  /\ UNCHANGED <<src, chunks, buf, off, limit, ch>>

-----------------------------------------------------------------------------
(* The comment loop: consume through the next terminator; EOF inside a    *)
(* comment ends readLines.                                                 *)
CommentByte ==
  /\ pc = "comment" /\ off < limit
  /\ off' = off + 1
  /\ IF buf[off + 1] \in EOL
       THEN skipWS' = TRUE /\ pc' = "loop"
       ELSE UNCHANGED <<skipWS, pc>>
  /\ UNCHANGED <<src, chunks, buf, limit, lineBuf, appended, precBS, ch, lines>>

CommentRead ==
  /\ pc = "comment" /\ off >= limit
  /\ ReadChunk("comment")
  /\ UNCHANGED <<src, lineBuf, skipWS, appended, precBS, ch, lines>>

CommentEof ==
  /\ pc = "comment" /\ off >= limit /\ chunks = <<>>
  /\ limit' = 0 /\ pc' = "done"
  /\ UNCHANGED <<src, chunks, buf, off, lineBuf, skipWS, appended, precBS,
                 ch, lines>>

Finished == pc = "done" /\ UNCHANGED rvars

Next ==
  \/ LoopRead \/ LoopEof \/ SkipByte \/ CommentOpen \/ AppendByte
  \/ EolBlank \/ EolSeen \/ EolRead \/ EolEof \/ Continuation \/ LineDone
  \/ CommentByte \/ CommentRead \/ CommentEof \/ Finished

Spec == Init /\ [][Next]_rvars

-----------------------------------------------------------------------------
(* The grammar of logical lines (spec section 4.1), over the whole input.  *)

RECURSIVE DropLead(_, _)
DropLead(s, S) == IF s # <<>> /\ Head(s) \in S THEN DropLead(Tail(s), S) ELSE s

(* The input after the next terminator (a comment's end).                  *)
AfterEol(s) == LET t == DropLead(s, (0..255) \ EOL)
               IN IF t = <<>> THEN t ELSE Tail(t)

RECURSIVE TrailingBackslashes(_)
TrailingBackslashes(a) ==
  IF a # <<>> /\ Last(a) = BSL THEN 1 + TrailingBackslashes(Front(a)) ELSE 0

(* Scan a logical line whose text so far is acc: a terminator after an odd *)
(* run of backslashes is a continuation, the next physical line's leading  *)
(* whitespace is skipped, and a backslash left at end of input is dropped.*)
(* With final = TRUE an escaped terminator that is the last byte of the    *)
(* input ends the line there, as the reference implementation does, even  *)
(* when nothing is left of the line.  The result says whether a line is    *)
(* produced, which, and the rest of the input.                             *)
RECURSIVE Scan(_, _, _)
Scan(t, acc, final) ==
  IF t = <<>>
    THEN [emit |-> TRUE, rest |-> t,
          line |-> IF TrailingBackslashes(acc) % 2 = 1 THEN Front(acc) ELSE acc]
  ELSE IF Head(t) \notin EOL THEN Scan(Tail(t), Append(acc, Head(t)), final)
  ELSE IF TrailingBackslashes(acc) % 2 = 0
    THEN [emit |-> TRUE, line |-> acc, rest |-> Tail(t)]
  ELSE IF final /\ Tail(t) = <<>>
    THEN [emit |-> TRUE, line |-> Front(acc), rest |-> <<>>]
  ELSE LET u == IF Head(t) = CR /\ Tail(t) # <<>> /\ Head(Tail(t)) = LF
                  THEN Tail(Tail(t)) ELSE Tail(t)
           v == DropLead(u, WS)
       IN IF Front(acc) = <<>> THEN [emit |-> FALSE, line |-> <<>>, rest |-> v]
                              ELSE Scan(v, Front(acc), final)

(* Logical lines: skip blanks and blank terminators, drop comment lines.   *)
RECURSIVE Logical(_, _)
Logical(s, final) ==
  LET t == DropLead(s, WS \cup EOL) IN
  IF t = <<>> THEN <<>>
  ELSE IF Head(t) \in CommentStart THEN Logical(AfterEol(t), final)
  ELSE LET r == Scan(t, <<>>, final)
       IN (IF r.emit THEN <<r.line>> ELSE <<>>) \o Logical(r.rest, final)

(* readLines returns, whatever sizes the Reads return, the logical lines   *)
(* of the reference implementation's grammar.                              *)
LinesMatchReference == pc = "done" => lines = Logical(src, TRUE)

=============================================================================
