------------------------------ MODULE Ip6Addr ------------------------------
(***************************************************************************)
(* lwIP's IPv6 address text codec                                           *)
(* (src/src/net/lwip-2.1.2/src/core/ipv6/ip6_addr.c): ip6addr_aton         *)
(* (lines 70-150) and ip6addr_ntoa_r (lines 176-296), as operators over    *)
(* strings of ASCII codes.                                                 *)
(*                                                                         *)
(* An address is its eight 16-bit blocks in network order, which is what   *)
(* the lwip_htons / lwip_htonl conversions of both functions arrive at.    *)
(* A C string is a sequence of character codes; the terminating NUL is     *)
(* the position just past its end.  The IPv4 parts of both functions       *)
(* (a dotted quad in the text, an IPv4-mapped address) call ip4addr_aton   *)
(* and ip4addr_ntoa_r, which are not in the repository: the inputs below   *)
(* contain no '.' and no IPv4-mapped address.                              *)
(*                                                                         *)
(* ip6addr_ntoa_r reads the block after a zero block to decide whether to  *)
(* compress; for block 7 that read is addr->addr[4], past the address      *)
(* (line 227).  What it returns is undefined: the constant Garbage is the  *)
(* set of values it may produce.                                           *)
(***************************************************************************)
EXTENDS Naturals, Sequences, FiniteSets, Bitwise

CONSTANTS
    BlockValues,    \* values of a block in the addresses given to ntoa
    Garbage,        \* values the out-of-bounds read at line 227 may return
    TextInputs      \* strings given to aton

Colon == 58
Invalid == [ok |-> FALSE, addr |-> <<>>]   \* ip6addr_aton returned 0

\* The character at 1-based position p of s, or NUL past its end.
CharAt(s, p) == IF p \in 1..Len(s) THEN s[p] ELSE 0

\* lwip_isxdigit
IsXdigit(c) == c \in (48..57) \cup (65..70) \cup (97..102)

-----------------------------------------------------------------------------
(* ip6addr_aton                                                            *)

\* The digit conversion of line 114, which also accepts lower case.
HexVal(c) == (c | 32) - 48 - 39 * (IF c >= 65 THEN 1 ELSE 0)

\* addr16[current_block_index++] = current_block_value (lines 92 and 101).
Push(st) == [st EXCEPT !.blocks = Append(st.blocks, st.val), !.idx = st.idx + 1]

\* The digit test of line 112 with room for five digits.
DigitFitsOffByOne(sc, ss) == sc - ss < 6

\* At most four hex digits per block (line 112): sc - ss < 5.
DigitFits(sc, ss) == sc - ss < 5

(* The scanning loop of lines 82-130.  st.sc is the position of sc, st.ss *)
(* that of the recent ':' (0 for cp - 1), st.idx current_block_index,     *)
(* st.val current_block_value, st.squash squash_pos, st.blocks addr16.    *)
RECURSIVE AtonScan(_, _)
AtonScan(s, st) ==
    LET c  == CharAt(s, st.sc)
        c1 == CharAt(s, st.sc + 1)
        single == st.sc - st.ss = 1
    IN  IF st.idx >= 8 THEN [st EXCEPT !.ok = FALSE]
        ELSE IF c = 0
        THEN IF single
             THEN [st EXCEPT !.ok = st.squash = st.idx]
             ELSE Push(st)
        ELSE IF c = Colon
        THEN IF single /\ (st.sc # 1 \/ c1 # Colon) THEN [st EXCEPT !.ok = FALSE]
             ELSE LET st1 == IF single THEN st ELSE Push(st)
                  IN  IF c1 = Colon
                      THEN IF st1.squash # 8 THEN [st EXCEPT !.ok = FALSE]
                           ELSE AtonScan(s, [st1 EXCEPT !.squash = st1.idx,
                                   !.sc = st.sc + 2, !.ss = st.sc + 1, !.val = 0])
                      ELSE AtonScan(s, [st1 EXCEPT !.sc = st.sc + 1,
                                                   !.ss = st.sc, !.val = 0])
        ELSE IF IsXdigit(c) /\ DigitFits(st.sc, st.ss)
        THEN AtonScan(s, [st EXCEPT !.val = (st.val * 16 + HexVal(c)) % 2^16,
                                    !.sc = st.sc + 1])
        ELSE [st EXCEPT !.ok = FALSE]

\* The length checks and the expansion of "::" (lines 132-149).
AtonFinish(st) ==
    IF ~st.ok THEN Invalid
    ELSE IF st.squash = 8 /\ st.idx # 8 THEN Invalid
    ELSE IF st.squash # 8 /\ st.idx = 8 THEN Invalid
    ELSE [ok |-> TRUE, addr |-> [j \in 1..8 |-> IF j <= st.squash THEN st.blocks[j]
                         ELSE IF j <= 8 - st.idx + st.squash THEN 0
                         ELSE st.blocks[j - 8 + st.idx]]]

Aton(s) == AtonFinish(AtonScan(s, [sc |-> 1, ss |-> 0, idx |-> 0, val |-> 0,
                                   squash |-> 8, blocks |-> <<>>, ok |-> TRUE]))

-----------------------------------------------------------------------------
(* ip6addr_ntoa_r                                                          *)

\* lwip_xchar with lower-case letters.
XcharLower(i) == IF i < 10 THEN 48 + i ELSE 97 + i - 10

\* lwip_xchar (line 59).
Xchar(i) == IF i < 10 THEN 48 + i ELSE 65 + i - 10

\* The hex digits of a block without leading zeros, the last always
\* (lines 256-287).
Digits(v) ==
    LET n    == <<shiftR(v & 61440, 12), shiftR(v & 3840, 8), shiftR(v & 240, 4), v & 15>>
        keep == {k \in 1..4 : k = 4 \/ \E j \in 1..k : n[j] # 0}
        d    == 4 - Cardinality(keep)
    IN  [i \in 1..4 - d |-> Xchar(n[i + d])]

\* A write whose test lets i reach buflen.
PutOffByOne(st, c, buflen) ==
    [st EXCEPT !.buf = Append(st.buf, c), !.fail = Len(st.buf) + 1 > buflen]

\* Writing one character, buf[i++] = c, then the test i >= buflen.
Put(st, c, buflen) ==
    [st EXCEPT !.buf = Append(st.buf, c), !.fail = Len(st.buf) + 1 >= buflen]

RECURSIVE PutAll(_, _, _)
PutAll(st, cs, buflen) ==
    IF cs = <<>> \/ st.fail THEN st
    ELSE PutAll(Put(st, Head(cs), buflen), Tail(cs), buflen)

\* next_block_value (lines 227-231): block k+1, or garbage g past the end.
NextBlock(a, k, g) == IF k < 7 THEN a[k + 2] ELSE g

\* The ':' separator and the digits of block k (lines 249-290).
Emit(st, k, v, buflen) ==
    PutAll(st, (IF k > 0 THEN <<Colon>> ELSE <<>>) \o Digits(v), buflen)

(* One pass of the loop of lines 206-291 for block k (0-based) of value v. *)
(* brk is the break of line 222.                                           *)
NtoaBlock(a, g, buflen, k, st) ==
    LET v == a[k + 1] IN
    IF v = 0
    THEN IF k = 7 /\ st.flag = 1
         THEN [s |-> Put(st, Colon, buflen), brk |-> TRUE]
         ELSE IF st.flag = 0 /\ NextBlock(a, k, g) = 0
         THEN [s |-> Put([st EXCEPT !.flag = 1], Colon, buflen), brk |-> FALSE]
         ELSE IF st.flag = 1
         THEN [s |-> st, brk |-> FALSE]
         ELSE [s |-> Emit(st, k, v, buflen), brk |-> FALSE]
    ELSE [s |-> Emit([st EXCEPT !.flag = IF st.flag = 1 THEN 2 ELSE st.flag],
                     k, v, buflen),
          brk |-> FALSE]

RECURSIVE NtoaLoop(_, _, _, _, _)
NtoaLoop(a, g, buflen, k, st) ==
    IF k = 8 \/ st.fail THEN st
    ELSE LET r == NtoaBlock(a, g, buflen, k, st)
         IN  IF r.brk THEN r.s ELSE NtoaLoop(a, g, buflen, k + 1, r.s)

\* ip6addr_ntoa_r(addr, buf, buflen): ok is FALSE when it returns NULL.
\* written is every character stored, the terminating NUL of line 293
\* included.
NtoaR(a, g, buflen) ==
    LET st == NtoaLoop(a, g, buflen, 0, [buf |-> <<>>, flag |-> 0, fail |-> FALSE])
    IN  [ok |-> ~st.fail, text |-> st.buf,
         written |-> IF st.fail THEN Len(st.buf) ELSE Len(st.buf) + 1]

-----------------------------------------------------------------------------
(* A reference parser: RFC 4291 section 2.2, forms 1 and 2               *)

RECURSIVE SplitColon(_)
SplitColon(s) ==
    IF \A i \in 1..Len(s) : s[i] # Colon THEN <<s>>
    ELSE LET p == CHOOSE i \in 1..Len(s) : s[i] = Colon /\ \A j \in 1..i - 1 : s[j] # Colon
         IN  <<SubSeq(s, 1, p - 1)>> \o SplitColon(SubSeq(s, p + 1, Len(s)))

HexField(f) == Len(f) \in 1..4 /\ \A i \in 1..Len(f) : IsXdigit(f[i])

RECURSIVE FieldValue(_)
FieldValue(f) == IF f = <<>> THEN 0
                 ELSE FieldValue(SubSeq(f, 1, Len(f) - 1)) * 16
                      + (CASE f[Len(f)] \in 48..57  -> f[Len(f)] - 48
                           [] f[Len(f)] \in 65..70  -> f[Len(f)] - 55
                           [] OTHER                 -> f[Len(f)] - 87)

\* The values of a ':'-separated list of hex fields, if it is one.
FieldList(s) ==
    LET fs == IF s = <<>> THEN <<>> ELSE SplitColon(s)
        ok == \A i \in 1..Len(fs) : HexField(fs[i])
    IN  [ok   |-> ok,
         vals |-> IF ok THEN [i \in 1..Len(fs) |-> FieldValue(fs[i])] ELSE <<>>]

\* Form 1 (eight fields) or form 2 (one "::" for one or more zero blocks).
RefParse(s) ==
    LET full == FieldList(s)
        cuts == {p \in 1..Len(s) - 1 : s[p] = Colon /\ s[p + 1] = Colon}
    IN  IF full.ok /\ Len(full.vals) = 8 THEN [ok |-> TRUE, addr |-> full.vals]
        ELSE IF Cardinality(cuts) # 1 THEN Invalid
        ELSE LET p == CHOOSE p \in cuts : TRUE
                 l == FieldList(SubSeq(s, 1, p - 1))
                 r == FieldList(SubSeq(s, p + 2, Len(s)))
             IN  IF l.ok /\ r.ok /\ Len(l.vals) + Len(r.vals) <= 7
                 THEN [ok |-> TRUE, addr |-> l.vals \o
                         [i \in 1..8 - Len(l.vals) - Len(r.vals) |-> 0] \o r.vals]
                 ELSE Invalid

-----------------------------------------------------------------------------
(* Calls of the codec: one call per behaviour, on a bounded input.          *)

Addresses == [1..8 -> BlockValues]

\* The text ip6addr_ntoa (line 164, buflen 40) produces for a.
Text(a, g) == NtoaR(a, g, 40).text

\* Calls of ip6addr_ntoa_r with the buffer exactly the text's length, one
\* more (the smallest that fits the NUL), and ip6addr_ntoa's 40.
NtoaCalls ==
    UNION {{[op |-> "ntoa", a |-> a, g |-> g, buflen |-> b] :
              b \in {Len(Text(a, g)), Len(Text(a, g)) + 1, 40}} :
           a \in Addresses, g \in Garbage}

AtonCalls == {[op |-> "aton", s |-> s] : s \in TextInputs}

VARIABLES req, returned, out

vars == <<req, returned, out>>

Init == /\ req \in NtoaCalls \cup AtonCalls
        /\ returned = FALSE
        /\ out = Invalid

CallAton == /\ req.op = "aton" /\ ~returned
            /\ out' = Aton(req.s)
            /\ returned' = TRUE
            /\ UNCHANGED req

CallNtoa == /\ req.op = "ntoa" /\ ~returned
            /\ out' = NtoaR(req.a, req.g, req.buflen)
            /\ returned' = TRUE
            /\ UNCHANGED req

Next == CallAton \/ CallNtoa

\* Each behaviour is one call, which returns.
Spec == Init /\ [][Next]_vars

-----------------------------------------------------------------------------
(* Properties                                                              *)

\* The characters ip6addr_ntoa_r writes: hex digits in upper case and ':'.
OutChars == (48..57) \cup (65..70) \cup {Colon}

TypeOK ==
    /\ returned \in BOOLEAN
    /\ \/ out \in [ok: BOOLEAN, addr: [1..8 -> 0..65535]] \cup {Invalid}
       \/ /\ out \in [ok: BOOLEAN, text: Seq(OutChars), written: Nat]

(* ip6addr_aton accepts exactly the texts RFC 4291 section 2.2 allows in   *)
(* its first two forms and returns the address they denote: at most four  *)
(* digits a block, one "::" standing for one or more zero blocks, eight    *)
(* blocks in all, upper or lower case.                                     *)
AtonMatchesReference == (req.op = "aton" /\ returned) => out = RefParse(req.s)

(* ip6addr_ntoa_r never writes past buf[buflen - 1], the terminating NUL   *)
(* of a text that fits included, and returns NULL exactly when the text    *)
(* and its NUL do not fit.  Every write is followed by the i >= buflen     *)
(* test (lines 219-289).                                                   *)
NtoaStaysInBuffer ==
    (req.op = "ntoa" /\ returned) =>
        /\ out.written <= req.buflen
        /\ ~out.ok <=> (Len(Text(req.a, req.g)) + 1 > req.buflen)

(* What ip6addr_ntoa prints parses back to the same address.               *)
NtoaRoundTrip ==
    (req.op = "ntoa" /\ returned /\ out.ok) => Aton(out.text) = [ok |-> TRUE, addr |-> req.a]
=============================================================================
