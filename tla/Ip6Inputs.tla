----------------------------- MODULE Ip6Inputs -----------------------------
(* The inputs the IPv6 codec is checked on, shared by MC_Ip6Addr and      *)
(* MC_Platform.                                                            *)
EXTENDS Naturals, Sequences

\* Blocks: zero (the compression cases) and 0x0A0F (a leading zero digit
\* dropped, an inner zero digit kept).  Every pattern of zero blocks occurs.
MC_BlockValues == {0, 2575}

\* The out-of-bounds read may find zero or not.
MC_Garbage == {0, 1}

\* Texts for aton: up to four tokens out of ':', '::', '1', 'a0', 'FFFF',
\* '12345' (five digits) and 'g' (not a hex digit) ...
Tokens == {<<58>>, <<58, 58>>, <<49>>, <<97, 48>>, <<70, 70, 70, 70>>,
           <<49, 50, 51, 52, 53>>, <<103>>}

RECURSIVE Concats(_)
Concats(n) == IF n = 0 THEN {<<>>}
              ELSE Concats(n - 1) \cup {s \o t : s \in Concats(n - 1), t \in Tokens}

\* ... and full forms of 7, 8 and 9 fields '0' or 'aBcD'.
RECURSIVE Joined(_)
Joined(n) == IF n = 1 THEN {<<48>>, <<97, 66, 99, 68>>}
             ELSE {s \o <<58>> \o f : s \in Joined(n - 1), f \in {<<48>>, <<97, 66, 99, 68>>}}

MC_TextInputs == Concats(4) \cup Joined(7) \cup Joined(8) \cup Joined(9)
=============================================================================
