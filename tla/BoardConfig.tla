----------------------------- MODULE BoardConfig -----------------------------
(***************************************************************************)
(* board_ioctl of the XR806 OHOS board                                     *)
(* (src/project/common/board/xr806_OHOS/board_config.c), with its lookups  *)
(* board_get_pinmux_info and board_get_cfg.                                *)
(*                                                                         *)
(* One call per behaviour, with any request, device major and minor.  A    *)
(* pin table is named by a pair <<table, index>>; the pins in it are left  *)
(* out, only whether a table is there and has pins matters to the code.    *)
(* Three functions are in board_common.c, not in the repository:           *)
(* board_pinmux_cfg may fail for any group; the SiP flash and PSRAM pinmux *)
(* lookups may fail, or succeed with or without pins.  The build options   *)
(* (PRJCONF_*, CONFIG_PSRAM, CONFIG_PM) are CONSTANTS.                     *)
(***************************************************************************)
EXTENDS Naturals, Sequences

CONSTANTS
    SwdEn, PsramEn, PmEn,       \* BOARD_SWD_EN, CONFIG_PSRAM, CONFIG_PM
    InternalCardEn, Ac107En, Ac101En, I2sNullEn, \* PRJCONF_*_SOUNDCARD_EN
    ADC_CHANNEL_VBAT,           \* from hal_adc.h (not in the repository)
    Minors                      \* minor numbers the calls use

None == <<"none", 0>>           \* an info[] slot left as memset cleared it

\* Table lengths (lines 87-91, 143-155, 158-165).
AdcChannels == 3
FlashCfgs == 1
PwmChannels == 6

\* snd_cards_board_cfg (lines 207-287): the cards the build enables, in order.
SndCards ==
    SelectSeq(<<[num |-> 0, pa |-> TRUE, internal |-> TRUE, en |-> InternalCardEn],
                [num |-> 1, pa |-> FALSE, internal |-> FALSE, en |-> Ac107En],
                [num |-> 2, pa |-> FALSE, internal |-> FALSE, en |-> Ac101En],
                [num |-> 3, pa |-> FALSE, internal |-> FALSE, en |-> I2sNullEn]>>,
              LAMBDA c : c.en)

Majors == {"UART", "I2C", "SPI", "IRRX", "IRTX", "ADC", "PWM", "FLASHC",
           "PSRAM", "AUDIO_CODEC", "SWD", "FLASH", "AD_BUTTON", "GPIO_BUTTON"}
PinmuxReqs == {"PINMUX_INIT", "PINMUX_DEINIT"}
              \cup (IF PmEn THEN {"PINMUX_SUSPEND", "PINMUX_RESUME"} ELSE {})
Reqs == PinmuxReqs \cup {"CHIP_CLOCK_INIT", "GET_CFG", "UNKNOWN"}
SipResults == {"fail", "pins", "nopins"}    \* board_get_*_sip_pinmux_cfg

Found(s1, s2) == [ok |-> TRUE, info |-> <<s1, s2>>]
Invalid == [ok |-> FALSE, info |-> <<None, None>>]

\* The SiP lookup; a table with count 0 stops board_ioctl's loop as an
\* empty slot does.
Sip(r, own) == IF r = "fail" THEN own ELSE IF r = "pins" THEN <<"sip", 0>> ELSE None

\* The first enabled card with this number: pa switch pins, then the
\* internal codec's pins (lines 385-398).
AudioInfo(minor) ==
    LET ks == {k \in 1..Len(SndCards) : SndCards[k].num = minor}
        c == SndCards[CHOOSE k \in ks : \A k2 \in ks : k <= k2]
        slots == (IF c.pa THEN <<<<"pa_switch", 0>>>> ELSE <<>>)
                 \o (IF c.internal THEN <<<<"internal_codec", 0>>>> ELSE <<>>)
    IN IF ks = {} THEN Found(None, None)
       ELSE Found(IF slots = <<>> THEN None ELSE slots[1],
                  IF Len(slots) < 2 THEN None ELSE slots[2])

\* board_get_pinmux_info (lines 296-411).
PinmuxInfo(major, minor, sip) ==
    CASE major = "UART" /\ minor \in 0..2 -> Found(<<"uart", minor>>, None)
      [] major = "I2C" /\ minor \in 0..1 -> Found(<<"i2c", minor>>, None)
      [] major = "SPI" /\ minor = 0 -> Found(<<"spi0", 0>>, <<"spi0_cs0", 0>>)
      [] major \in {"IRRX", "IRTX"} -> Found(<<major, 0>>, None)
      [] major = "ADC" /\ minor < AdcChannels -> Found(<<"adc", minor>>, None)
      [] major = "PWM" /\ minor < PwmChannels -> Found(<<"pwm", minor>>, None)
      [] major = "PWM" /\ minor = ADC_CHANNEL_VBAT -> Found(None, None)
      [] major = "FLASHC" -> Found(Sip(sip, <<"flashc", 0>>), None)
      [] major = "PSRAM" /\ PsramEn ->
            Found(Sip(sip, IF SwdEn THEN None ELSE <<"psram", 0>>), None)
      [] major = "AUDIO_CODEC" -> AudioInfo(minor)
      [] major = "SWD" /\ SwdEn -> Found(<<"swd", 0>>, None)
      [] OTHER -> Invalid

\* for (i = 0; i < BOARD_PINMUX_INFO_MAX; ++i) (line 464).
LoopEndsOffByOne(i) == i > 1
LoopEnds(i) == i > 2

\* The loop of board_ioctl (lines 464-472): configure each slot with pins
\* in order; stop at an empty slot or at the first board_pinmux_cfg error,
\* whose status becomes the result.  cfgOk[i]: what board_pinmux_cfg
\* returns for slot i.
RECURSIVE PinmuxLoop(_, _, _, _, _)
PinmuxLoop(info, cfgOk, i, ret, done) ==
    IF LoopEnds(i) \/ info[i] = None THEN [ret |-> ret, done |-> done]
    ELSE IF cfgOk[i] THEN PinmuxLoop(info, cfgOk, i + 1, "OK", done \cup {info[i]})
    ELSE [ret |-> "ERROR", done |-> done]

\* board_get_cfg (lines 413-445): what is written through param, if anything.
GetCfg(major, minor) ==
    CASE major = "FLASH" ->
            [ret |-> "OK", param |-> IF minor <= FlashCfgs THEN <<"flash_cfg", minor>>
                                     ELSE None]
      [] major = "AUDIO_CODEC" ->
            LET ks == {k \in 1..Len(SndCards) : SndCards[k].num = minor}
            IN [ret |-> "OK",
                param |-> IF ks = {} THEN <<"unwritten", 0>>
                          ELSE <<"card", CHOOSE k \in ks : \A k2 \in ks : k >= k2>>]
      [] major = "AD_BUTTON" -> [ret |-> "OK", param |-> <<"ad_buttons", 6>>]
      [] major = "GPIO_BUTTON" -> [ret |-> "OK", param |-> <<"gpio_buttons", 0>>]
      [] OTHER -> [ret |-> "INVALID", param |-> <<"unwritten", 0>>]

VARIABLES
    call,       \* [req, major, minor]
    returned,
    ret,        \* board_ioctl's HAL_Status
    lookup,     \* board_get_pinmux_info's result
    configured, \* pin tables board_pinmux_cfg set up
    param       \* what GET_CFG wrote through param1

vars == <<call, returned, ret, lookup, configured, param>>

Init == /\ call \in [req : Reqs, major : Majors, minor : Minors]
        /\ returned = FALSE /\ ret = "OK" /\ lookup = Found(None, None)
        /\ configured = {} /\ param = <<"unwritten", 0>>

\* board_ioctl (lines 447-494).
Ioctl ==
    /\ ~returned /\ returned' = TRUE
    /\ CASE call.req \in PinmuxReqs ->
              \E sip \in SipResults, cfgOk \in [1..2 -> BOOLEAN] :
                LET l == PinmuxInfo(call.major, call.minor, sip)
                    r == PinmuxLoop(l.info, cfgOk, 1, IF l.ok THEN "OK" ELSE "INVALID", {})
                IN ret' = r.ret /\ lookup' = l /\ configured' = r.done /\ UNCHANGED param
         [] call.req = "GET_CFG" ->
              LET g == GetCfg(call.major, call.minor)
              IN ret' = g.ret /\ param' = g.param /\ UNCHANGED <<lookup, configured>>
         [] call.req = "CHIP_CLOCK_INIT" -> UNCHANGED <<ret, lookup, configured, param>>
         [] OTHER -> ret' = "INVALID" /\ UNCHANGED <<lookup, configured, param>>
    /\ UNCHANGED call

Spec == Init /\ [][Ioctl]_vars

-----------------------------------------------------------------------------
(* Properties                                                              *)

(* A pinmux request reports HAL_OK exactly when the device is known and   *)
(* every pin table its lookup found was configured: the loop of board_ioctl *)
(* must reach every slot, stop at the first failure and keep its status,  *)
(* or a device comes up half configured with HAL_OK (SPI0 without its chip *)
(* select).                                                                *)
PinmuxOkMeansConfigured ==
    (returned /\ call.req \in PinmuxReqs) =>
        (ret = "OK" <=> lookup.ok /\ configured = {s \in {lookup.info[1], lookup.info[2]} : s # None})
=============================================================================
