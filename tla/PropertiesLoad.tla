--------------------------- MODULE PropertiesLoad ---------------------------
(***************************************************************************)
(* properties.Load (properties/properties.go): readLines (the LineReader  *)
(* model) and then, one logical line per step, the key/separator scan and *)
(* loadConvert of the key and of the value, stored into the map.  Bytes    *)
(* are numbers; Go's `range` over a string decodes UTF-8, which is         *)
(* modelled for ASCII and two-byte sequences (Alphabet has no lead byte of *)
(* a longer sequence).                                                     *)
(***************************************************************************)
EXTENDS LineReader

ASSUME LoadAssumption == Alphabet \subseteq 0..223

EQ == 61   COLON == 58   U == 117
Separators == {EQ, COLON}
RuneError == 65533

VARIABLES
  props,   \* the map built so far: byte-sequence keys to byte-sequence values
  li,      \* index of the next logical line to load
  status   \* "reading", "loading", "ok", "malformed", "panic"

lvars == <<props, li, status>>
vars == <<rvars, lvars>>

-----------------------------------------------------------------------------
(* `for _, c := range s` at byte i (1-based): a valid two-byte sequence is *)
(* one rune, any other byte >= 0x80 is utf8.RuneError of width 1.          *)
TwoByte(s, i) == /\ s[i] \in 194..223 /\ i < Len(s) /\ s[i + 1] \in 128..191
RuneWidth(s, i) == IF TwoByte(s, i) THEN 2 ELSE 1
RuneAt(s, i) == IF s[i] < 128 THEN s[i]
                ELSE IF TwoByte(s, i) THEN (s[i] - 192) * 64 + s[i + 1] - 128
                ELSE RuneError

(* The first loop of Load: keyLen counts runes; valueStart becomes         *)
(* keyLen + 1 at the first unescaped separator or blank.                   *)
RECURSIVE KeyScan(_, _, _, _)
KeyScan(line, i, keyLen, prec) ==
  IF i > Len(line)
    THEN [keyLen |-> keyLen, valueStart |-> Len(line), hasSep |-> FALSE]
  ELSE LET c == RuneAt(line, i) IN
    IF c \in Separators /\ ~prec
      THEN [keyLen |-> keyLen, valueStart |-> keyLen + 1, hasSep |-> TRUE]
    ELSE IF c \in WS /\ ~prec
      THEN [keyLen |-> keyLen, valueStart |-> keyLen + 1, hasSep |-> FALSE]
    ELSE KeyScan(line, i + RuneWidth(line, i), keyLen + 1,
                 IF c = BSL THEN ~prec ELSE FALSE)

(* The second loop: over the runes of line[valueStart:], skip blanks and  *)
(* at most one separator if none was seen.                                *)
RECURSIVE ValueScan(_, _, _, _)
ValueScan(line, j, valueStart, hasSep) ==
  IF j > Len(line) THEN valueStart
  ELSE LET c == RuneAt(line, j) IN
    IF c \notin WS /\ (hasSep \/ c \notin Separators) THEN valueStart
    ELSE ValueScan(line, j + RuneWidth(line, j), valueStart + 1,
                   hasSep \/ c \in Separators)

(* utf8.AppendRune for a code point below 0x10000.                         *)
UTF8(v) ==
  CASE v < 128 -> <<v>>
    [] v < 2048 -> <<192 + (v \div 64), 128 + (v % 64)>>
    [] v \in 55296..57343 -> <<239, 191, 189>>
    [] OTHER -> <<224 + (v \div 4096), 128 + ((v \div 64) % 64), 128 + (v % 64)>>

HexValue(b) == CASE b \in 48..57 -> b - 48
                 [] b \in 97..102 -> b - 87
                 [] b \in 65..70 -> b - 55
IsHex(b) == b \in (48..57) \cup (97..102) \cup (65..70)

(* \t, \r, \n, \f; any other escaped byte stands for itself.               *)
Control(a) == CASE a = 116 -> TAB [] a = 114 -> CR [] a = 110 -> LF
                [] a = 102 -> FF [] OTHER -> a

Ok(out) == [outcome |-> "ok", out |-> out]
Fail(o) == [outcome |-> o, out |-> <<>>]

(* Faulty variant: the \uxxxx bound check is off by one.                  *)
RECURSIVE DecodeStrict(_, _, _, _)
DecodeStrict(in, o, end, out) ==
  IF o >= end THEN Ok(out)
  ELSE IF in[o + 1] # BSL THEN DecodeStrict(in, o + 1, end, Append(out, in[o + 1]))
  ELSE IF o + 1 >= Len(in) THEN Fail("panic")
  ELSE LET a == in[o + 2] IN
    IF a # U THEN DecodeStrict(in, o + 2, end, Append(out, Control(a)))
    ELSE IF o + 2 >= end - 4 THEN Fail("malformed")
    ELSE IF \E k \in 3..6 : ~IsHex(in[o + k]) THEN Fail("malformed")
    ELSE DecodeStrict(in, o + 6, end,
                out \o UTF8(((HexValue(in[o + 3]) * 16 + HexValue(in[o + 4]))
                               * 16 + HexValue(in[o + 5])) * 16
                              + HexValue(in[o + 6])))

(* The decoding loop of loadConvert from 0-based offset o up to end; a    *)
(* backslash reads in[off] unchecked (an index past the line panics).     *)
RECURSIVE Decode(_, _, _, _)
Decode(in, o, end, out) ==
  IF o >= end THEN Ok(out)
  ELSE IF in[o + 1] # BSL THEN Decode(in, o + 1, end, Append(out, in[o + 1]))
  ELSE IF o + 1 >= Len(in) THEN Fail("panic")
  ELSE LET a == in[o + 2] IN
    IF a # U THEN Decode(in, o + 2, end, Append(out, Control(a)))
    ELSE IF o + 2 > end - 4 THEN Fail("malformed")
    ELSE IF \E k \in 3..6 : ~IsHex(in[o + k]) THEN Fail("malformed")
    ELSE Decode(in, o + 6, end,
                out \o UTF8(((HexValue(in[o + 3]) * 16 + HexValue(in[o + 4]))
                               * 16 + HexValue(in[o + 5])) * 16
                              + HexValue(in[o + 6])))

(* loadConvert(in, off, len): with no backslash before the last byte of   *)
(* the range (off == end after the search), the bytes are returned as      *)
(* they are; otherwise decoding starts at the first backslash.             *)
LoadConvert(in, start, len) ==
  LET end == start + len
      bs == {j \in start..end - 1 : in[j + 1] = BSL}
      first == CHOOSE j \in bs : \A k \in bs : j <= k
  IN IF bs = {} \/ first = end - 1 THEN Ok(SubSeq(in, start + 1, end))
     ELSE Decode(in, first, end, SubSeq(in, start + 1, first))

-----------------------------------------------------------------------------
InitLoad == props = <<>> /\ li = 1 /\ status = "reading"

(* readLines returned: Load starts on its lines.                           *)
LinesRead ==
  /\ pc = "done" /\ status = "reading"
  /\ status' = "loading"
  /\ UNCHANGED <<rvars, props, li>>

(* One iteration of Load's loop over the lines.                            *)
LoadLine ==
  /\ status = "loading" /\ li <= Len(lines)
  /\ LET line == lines[li]
         k == KeyScan(line, 1, 0, FALSE)
         vs == ValueScan(line, k.valueStart + 1, k.valueStart, k.hasSep)
         key == LoadConvert(line, 0, k.keyLen)
         value == LoadConvert(line, vs, Len(line) - vs)
     IN IF key.outcome # "ok" THEN status' = key.outcome /\ UNCHANGED props
        ELSE IF value.outcome # "ok" THEN status' = value.outcome /\ UNCHANGED props
        ELSE /\ props' = [x \in DOMAIN props \cup {key.out} |->
                            IF x = key.out THEN value.out ELSE props[x]]
             /\ UNCHANGED status
  /\ li' = li + 1
  /\ UNCHANGED rvars

LoadDone ==
  /\ status = "loading" /\ li > Len(lines)
  /\ status' = "ok"
  /\ UNCHANGED <<rvars, props, li>>

LoadNext ==
  \/ (Next /\ status = "reading" /\ ~(pc = "done") /\ UNCHANGED lvars)
  \/ LinesRead \/ LoadLine \/ LoadDone
  \/ (status \in {"ok", "malformed", "panic"} /\ UNCHANGED vars)

LoadSpec == Init /\ InitLoad /\ [][LoadNext]_vars

-----------------------------------------------------------------------------
(* The key/value grammar of spec section 4.1, one byte per character.     *)

(* Position of the first unescaped separator or blank (Len + 1: none).     *)
RECURSIVE SplitAt(_, _, _)
SplitAt(line, i, prec) ==
  IF i > Len(line) THEN i
  ELSE IF line[i] \in Separators \cup WS /\ ~prec THEN i
  ELSE SplitAt(line, i + 1, IF line[i] = BSL THEN ~prec ELSE FALSE)

(* Key and raw value: after a blank, further blanks and one more separator *)
(* with its trailing blanks are skipped; after a separator, blanks only.   *)
SpecSplit(line) ==
  LET k == SplitAt(line, 1, FALSE)
      rest == DropLead(SubSeq(line, k + 1, Len(line)), WS)
      value == IF k <= Len(line) /\ line[k] \in WS /\ rest # <<>>
                  /\ Head(rest) \in Separators
                 THEN DropLead(Tail(rest), WS) ELSE rest
  IN [key |-> SubSeq(line, 1, k - 1), value |-> value]

(* Escape decoding: \t \r \n \f, \uXXXX to one code point, any other     *)
(* escaped byte literally.                                                 *)
RECURSIVE Unescape(_)
Unescape(s) ==
  IF s = <<>> THEN Ok(<<>>)
  ELSE LET Then(pre, r) == IF r.outcome = "ok" THEN Ok(pre \o r.out) ELSE r IN
    IF Head(s) # BSL \/ Len(s) = 1 THEN Then(<<Head(s)>>, Unescape(Tail(s)))
    ELSE IF s[2] # U THEN Then(<<Control(s[2])>>, Unescape(SubSeq(s, 3, Len(s))))
    ELSE IF Len(s) < 6 \/ \E k \in 3..6 : ~IsHex(s[k]) THEN Fail("malformed")
    ELSE Then(UTF8(HexValue(s[3]) * 4096 + HexValue(s[4]) * 256
                   + HexValue(s[5]) * 16 + HexValue(s[6])),
              Unescape(SubSeq(s, 7, Len(s))))

(* Load of a whole input: the first malformed escape fails it; a later    *)
(* line overrides an earlier one with the same key.                        *)
RECURSIVE SpecLoad(_, _)
SpecLoad(ls, m) ==
  IF ls = <<>> THEN [outcome |-> "ok", map |-> m]
  ELSE LET p == SpecSplit(Head(ls))
           k == Unescape(p.key)
           v == Unescape(p.value)
       IN IF k.outcome # "ok" \/ v.outcome # "ok"
            THEN [outcome |-> "malformed", map |-> <<>>]
          ELSE SpecLoad(Tail(ls), [x \in DOMAIN m \cup {k.out} |->
                                    IF x = k.out THEN v.out ELSE m[x]])

(* Load, once finished, returns the map (or the error) the grammar of the *)
(* spec gives for the input: keys, values and separators are found byte by *)
(* byte.                                                                   *)
LoadMatchesSpec ==
  status \in {"ok", "malformed", "panic"} =>
    LET r == SpecLoad(Logical(src, TRUE), <<>>)
    IN /\ status = r.outcome
       /\ status = "ok" => props = r.map
=============================================================================
