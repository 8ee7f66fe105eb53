------------------------------ MODULE CdxStream ------------------------------
(***************************************************************************)
(* CdxStreamSkip of the CedarX stream interface                            *)
(* (src/include/cedarx/libcore/stream/include/CdxStream.h, lines 528-566)  *)
(* and the wrappers it calls: CdxStreamSeekAble, CdxStreamSeek and         *)
(* CdxStreamRead.                                                          *)
(*                                                                         *)
(* A caller skips len bytes of a stream, MaxCalls times.  A seekable       *)
(* stream seeks from the current position; a stream without the seek flag *)
(* is read into a 512-byte buffer, at most ten times.  The stream is the   *)
(* environment: a seekable stream's cdxSeek may be missing or fail; an     *)
(* unseekable one's cdxRead returns what is left of the stream, up to the  *)
(* request, or -1 (error, force-stop).  Byte contents are left out: only   *)
(* the number of bytes consumed is kept.                                   *)
(***************************************************************************)
EXTENDS Naturals, Integers

CONSTANTS
    Lens,       \* len arguments of the calls
    Sizes,      \* stream lengths in bytes
    MaxCalls    \* CdxStreamSkip calls per behaviour

DummyBufSize == 512     \* cdx_char dummyBuf[512]
MaxUnits == 10          \* for (i = 0; i < 10; i++)
CDX_SUCCESS == 0

VARIABLES
    seekable,   \* CdxStreamAttribute(stream) & CDX_STREAM_FLAG_SEEK
    size,       \* bytes in the stream
    pos,        \* bytes of the stream consumed so far
    start,      \* pos when the current call began
    len, skipSize, i, ret,
    req,        \* unitSize of the last CdxStreamRead
    pc,         \* "idle", "reading" (in the loop) or "done"
    calls

vars == <<seekable, size, pos, start, len, skipSize, i, ret, req, pc, calls>>

Init == /\ seekable \in BOOLEAN /\ size \in Sizes
        /\ pos = 0 /\ start = 0 /\ len = 0 /\ skipSize = 0 /\ i = 0
        /\ ret = 0 /\ req = 0 /\ pc = "idle" /\ calls = 0

\* if (len > 512 * 10) return -1;
TooLarge(l) == l > DummyBufSize * MaxUnits

\* unitSize = (skipSize > 512) ? 512 : skipSize;
UnitSize(s) == IF s > DummyBufSize THEN DummyBufSize ELSE s

\* The loop ends after its tenth read.
LastUnitOffByOne(n) == n + 1 = MaxUnits - 1
LastUnit(n) == n + 1 = MaxUnits

Return(r) == ret' = r /\ pc' = "done"

\* CdxStreamSkip, up to the loop (lines 530-549).  CdxStreamSeek returns
\* cdxSeek's result, or -1 when the stream has none.
Skip(l) ==
    /\ pc \in {"idle", "done"} /\ calls < MaxCalls
    /\ len' = l /\ start' = pos /\ calls' = calls + 1
    /\ CASE l = 0 -> Return(0) /\ UNCHANGED <<pos, skipSize, i>>
         [] seekable ->
              \/ Return(0) /\ pos' = pos + l /\ UNCHANGED <<skipSize, i>>
              \/ Return(-1) /\ UNCHANGED <<pos, skipSize, i>>
         [] TooLarge(l) -> Return(-1) /\ UNCHANGED <<pos, skipSize, i>>
         [] OTHER -> /\ pc' = "reading" /\ skipSize' = l /\ i' = 0
                     /\ UNCHANGED <<pos, ret>>
    /\ UNCHANGED <<seekable, size, req>>

\* One iteration of the loop (lines 550-563): read unitSize bytes; a short
\* read or an error returns -1, bytes already read stay consumed.
ReadUnit ==
    /\ pc = "reading"
    /\ LET unit == UnitSize(skipSize)
       IN \E r \in {IF size - pos < unit THEN size - pos ELSE unit, -1} :
            /\ req' = unit
            /\ pos' = pos + (IF r > 0 THEN r ELSE 0)
            /\ IF r # unit
               THEN Return(-1) /\ UNCHANGED <<skipSize, i>>
               ELSE /\ skipSize' = skipSize - r
                    /\ IF skipSize - r = 0 \/ LastUnit(i)
                       THEN Return(CDX_SUCCESS) /\ UNCHANGED i
                       ELSE i' = i + 1 /\ UNCHANGED <<ret, pc>>
    /\ UNCHANGED <<seekable, size, start, len, calls>>

Next == (\E l \in Lens : Skip(l)) \/ ReadUnit

Spec == Init /\ [][Next]_vars

-----------------------------------------------------------------------------
(* Properties                                                              *)

(* A skip never consumes more than len bytes, and it returns CDX_SUCCESS   *)
(* exactly when it consumed all len: the length check of line 543 and the  *)
(* ten 512-byte reads of the loop must agree, or a skip near 5120 bytes     *)
(* reports success short of its target.                                    *)
SkipConsumesExactly ==
    /\ pos - start <= len
    /\ pc = "done" => (ret = CDX_SUCCESS <=> pos - start = len)
=============================================================================
