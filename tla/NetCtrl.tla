------------------------------- MODULE NetCtrl -------------------------------
(***************************************************************************)
(* The network-control core of project/common/framework/net_ctrl.c.        *)
(*                                                                         *)
(* Four execution contexts share one network interface (netif):            *)
(*  - the sys_ctrl worker thread, which drains the event queue and runs    *)
(*    net_ctrl_msg_process for every message;                              *)
(*  - the lwIP tcpip thread, which runs every netifapi_* call made by the  *)
(*    other threads, the DHCP client and IPv6 address timers, and calls    *)
(*    netif_status_callback whenever an address of the netif may have      *)
(*    changed;                                                             *)
(*  - the WLAN driver, which posts WLAN_CONNECTED / WLAN_DISCONNECTED;     *)
(*  - an application thread calling net_switch_mode.                       *)
(* A netifapi_* call blocks its caller until the tcpip thread has run it,  *)
(* including the status callback it triggers, so such a call and the       *)
(* callback are one step here.  The worker is split at the points where    *)
(* the code reads shared state and uses it later.                          *)
(***************************************************************************)
EXTENDS Naturals, Sequences, FiniteSets

CONSTANTS
    DhcpAddrs,        \* addresses the DHCP server may lease (nonzero)
    StaStaticAddr,    \* sysinfo->netif_sta_param.ip_addr
    ApAddr,           \* sysinfo->netif_ap_param.ip_addr
    NumIp6,           \* LWIP_IPV6_NUM_ADDRESSES
    QueueCap,         \* capacity of the sys_ctrl event queue
    MaxLinkEvents,    \* bound: driver connect/disconnect reports
    MaxDhcpEvents,    \* bound: DHCP lease bound / lost in the tcpip thread
    MaxIp6Events,     \* bound: IPv6 address state changes
    MaxSwitches,      \* bound: net_switch_mode calls
    MaxFaults,        \* bound: failed dhcp_start / wlan_netif_create
    NULL              \* model value: no netif (wlan_netif_get returned NULL)

ASSUME
    /\ DhcpAddrs \subseteq Nat \ {0} /\ DhcpAddrs # {}
    /\ {StaStaticAddr, ApAddr} \subseteq Nat \ {0}
    /\ NumIp6 \in 1..8          \* the #error at net_ctrl.c:160
    /\ QueueCap \in Nat \ {0}
    /\ {MaxLinkEvents, MaxDhcpEvents, MaxIp6Events, MaxSwitches, MaxFaults} \subseteq Nat

Modes == {"STA", "HOSTAP", "MONITOR"}          \* enum wlan_mode below WLAN_MODE_NUM
DhcpStates == {"Off", "Requesting", "Bound"}    \* Requesting: any state but OFF and BOUND
Slots == 0..(NumIp6 - 1)
Addrs == {0} \cup DhcpAddrs \cup {StaStaticAddr, ApAddr}
\* The message types of net_ctrl_msg_str (lines 472-487) that a handler or
\* an observer acts on; the scan, handshake, connect-failed and loss
\* messages are only logged (lines 531-540).
MsgTypes == {"WLAN_CONNECTED", "WLAN_DISCONNECTED", "NETWORK_UP",
             "NETWORK_DOWN", "NETWORK_IPV6_STATE"}
Bound == [link |-> MaxLinkEvents, dhcp |-> MaxDhcpEvents, ip6 |-> MaxIp6Events,
          switch |-> MaxSwitches, fault |-> MaxFaults]
NoSlots == {}

VARIABLES
    nif,                \* the netif returned by wlan_netif_get, or NULL
    nextId,             \* identity of the last netif created
    m_ipv4_addr,        \* dedup cache of the status callback (IPv4 address)
    m_ipv6_addr_state,  \* dedup cache of the status callback (valid IPv6 slots)
    sysMode,            \* sysinfo->wlan_mode
    staUseDhcp,         \* sysinfo->sta_use_dhcp
    assoc,              \* the radio is associated (driver state)
    wlanIp,             \* address last given to the firmware by wlan_set_ip_addr
    dhcpServer,         \* dhcp_server_start has been called
    queue,              \* sys_ctrl event queue, category NETWORK
    wpc, wmsg, wnif,    \* worker: step, message being handled, netif it read
    wAddr,              \* worker: address read by netif_up_handler (line 82)
    heard4, heard6,     \* what observers of the queue last heard (up?, IPv6 slots)
    spc, smode,         \* net_switch_mode: step, and the mode it was asked for
    budget              \* environment events spent, per bound

vars == <<nif, nextId, m_ipv4_addr, m_ipv6_addr_state, sysMode, staUseDhcp,
          assoc, wlanIp, dhcpServer, queue, wpc, wmsg, wnif, wAddr,
          heard4, heard6, spc, smode, budget>>

Netif == [id: Nat, mode: Modes, link: BOOLEAN, ip4: Addrs,
          dhcpData: BOOLEAN, dhcp: DhcpStates, ip6: SUBSET Slots]
Msg(t, d) == [type |-> t, data |-> d]

-----------------------------------------------------------------------------
(* Helpers                                                                 *)

\* Spend one event of every bound in ks; a failed call (ok = FALSE) also
\* spends a fault.
Spend(ks, ok) ==
    LET all == IF ok THEN ks ELSE ks \cup {"fault"}
    IN  /\ \A k \in all : budget[k] < Bound[k]
        /\ budget' = [k \in DOMAIN budget |-> IF k \in all THEN budget[k] + 1
                                                         ELSE budget[k]]

\* NET_IS_IP4_VALID
Ip4Valid(n) == n # NULL /\ n.ip4 # 0

\* NET_DHCP_DATA(nif) && NET_DHCP_STATE(nif) != NET_DHCP_STATE_OFF, with the
\* lwIP 2 definitions of the macros (lines 224-227)
DhcpStarted(n) == n.dhcpData /\ n.dhcp # "Off"

\* struct netif_conf as built by net_config from sysinfo (lines 313-330)
ConfFor(mode, useDhcp) ==
    IF mode = "STA"
    THEN [use_dhcp |-> useDhcp, ipaddr |-> StaStaticAddr]
    ELSE [use_dhcp |-> FALSE, ipaddr |-> ApAddr]

\* net_config returns early unless sysinfo->wlan_mode is STA or HOSTAP
ConfigurableMode == sysMode \in {"STA", "HOSTAP"}

\* netif_config (lines 233-302): the netif after the call.  startOk is the
\* outcome of netifapi_dhcp_start.  dhcp_release removes the address only if
\* DHCP supplied it; dhcp_stop turns the client off.
NetifConfig(n, bringUp, conf, startOk) ==
    CASE bringUp /\ n.ip4 # 0 -> n
      [] bringUp /\ conf.use_dhcp /\ DhcpStarted(n) -> n
      [] bringUp /\ conf.use_dhcp ->
            IF startOk THEN [n EXCEPT !.dhcpData = TRUE, !.dhcp = "Requesting"]
                       ELSE n
      [] bringUp -> [n EXCEPT !.ip4 = conf.ipaddr]
      [] conf.use_dhcp /\ ~n.dhcpData -> n
      [] conf.use_dhcp ->
            [n EXCEPT !.ip4  = IF n.link /\ n.dhcp # "Bound" THEN n.ip4 ELSE 0,
                      !.dhcp = "Off"]
      [] OTHER -> [n EXCEPT !.ip4 = 0]

\* netif_config reaches netif_up_handler on the "already up" path (line 248)
CallsUpHandler(n, bringUp) == bringUp /\ n.ip4 # 0

\* Does netifapi_dhcp_start run (so it may fail)?
StartsDhcp(n, bringUp, conf) ==
    bringUp /\ n.ip4 = 0 /\ conf.use_dhcp /\ ~DhcpStarted(n)

StatusMsgs(n) ==
    (IF n.ip4 # m_ipv4_addr
     THEN <<Msg(IF n.ip4 # 0 THEN "NETWORK_UP" ELSE "NETWORK_DOWN", NoSlots)>>
     ELSE <<>>)
    \o (IF n.ip6 # m_ipv6_addr_state
        THEN <<Msg("NETWORK_IPV6_STATE", n.ip6)>> ELSE <<>>)

\* netif_down_handler runs inside the callback when IPv4 goes invalid
WlanIpAfterCallback(n) ==
    IF n.ip4 # m_ipv4_addr /\ n.ip4 = 0 /\ n.mode = "STA" THEN 0 ELSE wlanIp

\* net_ctrl_msg_send with OS_WAIT_FOREVER: the sender waits for room, so a
\* step that sends is only enabled when all its messages fit.
Send(q, msgs) == /\ Len(q) + Len(msgs) <= QueueCap
                 /\ queue' = q \o msgs

\* Variant whose bitmap loop sets bit i + 1 for slot i (line 193).
StatusCallbackShiftedBitmap(n, q) ==
    LET bits == {i + 1 : i \in n.ip6}
    IN  /\ Send(q, StatusMsgs(n))
        /\ m_ipv4_addr' = n.ip4
        /\ m_ipv6_addr_state' = bits
        /\ wlanIp' = WlanIpAfterCallback(n)

\* The whole of netif_status_callback for netif n, queue before it q.
StatusCallback(n, q) ==
    /\ Send(q, StatusMsgs(n))
    /\ m_ipv4_addr' = n.ip4
    /\ m_ipv6_addr_state' = n.ip6
    /\ wlanIp' = WlanIpAfterCallback(n)

FreshNetif(id, mode) == [id |-> id, mode |-> mode, link |-> FALSE, ip4 |-> 0,
                   dhcpData |-> FALSE, dhcp |-> "Off", ip6 |-> NoSlots]

\* The netif the worker read at line 502, if it still exists.
WorkerNetif == IF wnif = 0 THEN NULL ELSE nif
WorkerNetifDeleted == wnif # 0 /\ IF nif = NULL THEN TRUE ELSE nif.id # wnif

-----------------------------------------------------------------------------
(* Initial state: net_open(mode) at boot, nothing queued                   *)

Init ==
    /\ \E mode \in {"STA", "HOSTAP"} :
          /\ nif = FreshNetif(1, mode)
          /\ sysMode = mode
    /\ nextId = 1
    /\ m_ipv4_addr = 0
    /\ m_ipv6_addr_state = NoSlots
    /\ staUseDhcp \in BOOLEAN
    /\ assoc = FALSE
    /\ wlanIp = 0
    /\ dhcpServer = FALSE
    /\ queue = <<>>
    /\ wpc = "idle" /\ wmsg = Msg("NETWORK_DOWN", NoSlots) /\ wnif = 0 /\ wAddr = 0
    /\ heard4 = FALSE /\ heard6 = NoSlots
    /\ spc = "idle" /\ smode = sysMode
    /\ budget = [k \in DOMAIN Bound |-> 0]

-----------------------------------------------------------------------------
(* Worker: net_ctrl_msg_process (lines 500-554)                            *)

\* Take the next message and read the netif (line 502).
Receive ==
    /\ wpc = "idle"
    /\ queue # <<>>
    /\ wmsg' = Head(queue)
    /\ queue' = Tail(queue)
    /\ wnif' = IF nif = NULL THEN 0 ELSE nif.id
    /\ wpc' = "handle"
    /\ UNCHANGED <<nif, nextId, m_ipv4_addr, m_ipv6_addr_state, sysMode,
                   staUseDhcp, assoc, wlanIp, dhcpServer, wAddr, heard4,
                   heard6, budget, spc, smode>>

\* netif_up_handler (lines 67-100).  In STA mode it reads the address
\* (line 82) and hands it to the firmware in a later step (SetIpAddr).
UpHandler(n) ==
    /\ wpc' = IF n # NULL /\ n.mode = "STA" THEN "set_ip" ELSE "idle"
    /\ wAddr' = IF n # NULL /\ n.mode = "STA" THEN n.ip4 ELSE wAddr
    /\ dhcpServer' = (dhcpServer \/ (n # NULL /\ n.mode = "HOSTAP"))

Finish == /\ wpc' = "idle"
          /\ UNCHANGED <<wAddr, dhcpServer>>

Handling(type) == wpc = "handle" /\ wmsg.type = type /\ ~WorkerNetifDeleted

\* WLAN_CONNECTED with no netif or the link already up: nothing (line 509).
ConnectedIgnored ==
    /\ Handling("WLAN_CONNECTED")
    /\ IF WorkerNetif = NULL THEN TRUE ELSE WorkerNetif.link
    /\ Finish
    /\ UNCHANGED <<nif, nextId, m_ipv4_addr, m_ipv6_addr_state, sysMode,
                   staUseDhcp, assoc, wlanIp, queue, wmsg, wnif, heard4,
                   heard6, budget, spc, smode>>

\* WLAN_CONNECTED: netifapi_netif_set_link_up (line 510), whose link
\* callback only logs (lines 125-132).
ConnectedLinkUp ==
    /\ Handling("WLAN_CONNECTED")
    /\ WorkerNetif # NULL /\ ~WorkerNetif.link
    /\ nif' = [nif EXCEPT !.link = TRUE]
    /\ wpc' = "config"
    /\ UNCHANGED <<nextId, m_ipv4_addr, m_ipv6_addr_state, sysMode, staUseDhcp,
                   assoc, wlanIp, dhcpServer, queue, wmsg, wnif, wAddr, heard4,
                   heard6, budget, spc, smode>>

\* ... then net_config(nif, 1) (line 512), from sysinfo as it is by then.
ConnectedBringUp ==
    /\ wpc = "config" /\ ~WorkerNetifDeleted
    /\ LET conf == ConfFor(sysMode, staUseDhcp)
       IN  \E ok \in IF ConfigurableMode /\ StartsDhcp(nif, TRUE, conf)
                     THEN BOOLEAN ELSE {TRUE} :
             LET n == IF ConfigurableMode THEN NetifConfig(nif, TRUE, conf, ok)
                                          ELSE nif
             IN  /\ Spend({}, ok)
                 /\ nif' = n
                 /\ StatusCallback(n, queue)
                 /\ IF ConfigurableMode /\ CallsUpHandler(nif, TRUE)
                    THEN UpHandler(n) ELSE Finish
    /\ UNCHANGED <<nextId, sysMode, staUseDhcp, assoc, wmsg, wnif, heard4, heard6,
                   spc, smode>>

\* WLAN_DISCONNECTED: set the link down; if DHCP is started and not bound,
\* net_config(nif, 0) (lines 516-529).
HandleDisconnected ==
    /\ Handling("WLAN_DISCONNECTED")
    /\ IF WorkerNetif = NULL
       THEN UNCHANGED <<nif, m_ipv4_addr, m_ipv6_addr_state, wlanIp, queue>>
       ELSE LET down == [nif EXCEPT !.link = FALSE]
                n == IF DhcpStarted(down) /\ down.dhcp # "Bound" /\ ConfigurableMode
                     THEN NetifConfig(down, FALSE, ConfFor(sysMode, staUseDhcp), TRUE)
                     ELSE down
            IN  /\ nif' = n
                /\ StatusCallback(n, queue)
    /\ Finish
    /\ UNCHANGED <<nextId, sysMode, staUseDhcp, assoc, wmsg, wnif, heard4,
                   heard6, budget, spc, smode>>

\* NETWORK_UP: netif_up_handler(nif) (line 542).
HandleNetworkUp ==
    /\ Handling("NETWORK_UP")
    /\ heard4' = TRUE
    /\ UpHandler(WorkerNetif)
    /\ UNCHANGED <<nif, nextId, m_ipv4_addr, m_ipv6_addr_state, sysMode,
                   staUseDhcp, assoc, wlanIp, queue, wmsg, wnif, heard6, budget, spc, smode>>

\* NETWORK_DOWN and NETWORK_IPV6_STATE: nothing but what observers hear.
HandleNetworkDown ==
    /\ Handling("NETWORK_DOWN")
    /\ heard4' = FALSE
    /\ Finish
    /\ UNCHANGED <<nif, nextId, m_ipv4_addr, m_ipv6_addr_state, sysMode,
                   staUseDhcp, assoc, wlanIp, queue, wmsg, wnif, heard6, budget, spc, smode>>

HandleIpv6State ==
    /\ Handling("NETWORK_IPV6_STATE")
    /\ heard6' = wmsg.data
    /\ Finish
    /\ UNCHANGED <<nif, nextId, m_ipv4_addr, m_ipv6_addr_state, sysMode,
                   staUseDhcp, assoc, wlanIp, queue, wmsg, wnif, heard4, budget, spc, smode>>

\* wlan_set_ip_addr(nif, &addr) with the address read earlier (line 83).
SetIpAddr ==
    /\ wpc = "set_ip"
    /\ wlanIp' = wAddr
    /\ wpc' = "idle"
    /\ UNCHANGED <<nif, nextId, m_ipv4_addr, m_ipv6_addr_state, sysMode,
                   staUseDhcp, assoc, dhcpServer, queue, wmsg, wnif, wAddr,
                   heard4, heard6, budget, spc, smode>>

\* The netif read at line 502 was deleted by net_switch_mode meanwhile: the
\* handler dereferences freed memory.  Its effect on the netif is not
\* modelled; observers of the queue still hear the message.
HandleOnDeletedNetif ==
    /\ wpc \in {"handle", "config"}
    /\ WorkerNetifDeleted
    /\ heard4' = CASE wmsg.type = "NETWORK_UP"   -> TRUE
                    [] wmsg.type = "NETWORK_DOWN" -> FALSE
                    [] OTHER                      -> heard4
    /\ heard6' = IF wmsg.type = "NETWORK_IPV6_STATE" THEN wmsg.data ELSE heard6
    /\ Finish
    /\ UNCHANGED <<nif, nextId, m_ipv4_addr, m_ipv6_addr_state, sysMode,
                   staUseDhcp, assoc, wlanIp, queue, wmsg, wnif, budget, spc, smode>>

-----------------------------------------------------------------------------
(* WLAN driver: association reports posted to the queue                    *)

WlanConnect ==
    /\ nif # NULL /\ nif.mode \in {"STA", "HOSTAP"} /\ spc # "start"
    /\ ~assoc
    /\ Spend({"link"}, TRUE)
    /\ assoc' = TRUE
    /\ Send(queue, <<Msg("WLAN_CONNECTED", NoSlots)>>)
    /\ UNCHANGED <<nif, nextId, m_ipv4_addr, m_ipv6_addr_state, sysMode,
                   staUseDhcp, wlanIp, dhcpServer, wpc, wmsg, wnif, wAddr,
                   heard4, heard6, spc, smode>>

WlanDisconnect ==
    /\ assoc
    /\ Spend({"link"}, TRUE)
    /\ assoc' = FALSE
    /\ Send(queue, <<Msg("WLAN_DISCONNECTED", NoSlots)>>)
    /\ UNCHANGED <<nif, nextId, m_ipv4_addr, m_ipv6_addr_state, sysMode,
                   staUseDhcp, wlanIp, dhcpServer, wpc, wmsg, wnif, wAddr,
                   heard4, heard6, spc, smode>>

-----------------------------------------------------------------------------
(* tcpip thread: address changes made by lwIP itself, each followed by     *)
(* netif_status_callback                                                   *)

\* The DHCP client binds a lease (needs the link up and the radio associated).
DhcpBind(a) ==
    /\ nif # NULL /\ nif.dhcp = "Requesting" /\ nif.link /\ assoc
    /\ Spend({"dhcp"}, TRUE)
    /\ LET n == [nif EXCEPT !.dhcp = "Bound", !.ip4 = a]
       IN  nif' = n /\ StatusCallback(n, queue)
    /\ UNCHANGED <<nextId, sysMode, staUseDhcp, assoc, dhcpServer, wpc, wmsg,
                   wnif, wAddr, heard4, heard6, spc, smode>>

\* The lease is lost (NAK or expiry): the address is removed, DHCP restarts.
DhcpLeaseLost ==
    /\ nif # NULL /\ nif.dhcp = "Bound"
    /\ Spend({"dhcp"}, TRUE)
    /\ LET n == [nif EXCEPT !.dhcp = "Requesting", !.ip4 = 0]
       IN  nif' = n /\ StatusCallback(n, queue)
    /\ UNCHANGED <<nextId, sysMode, staUseDhcp, assoc, dhcpServer, wpc, wmsg,
                   wnif, wAddr, heard4, heard6, spc, smode>>

\* An IPv6 address slot becomes valid (after DAD, needs the link) or
\* invalid; IPv6 is enabled on the STA netif only (net_open, line 365).
Ip6StateChange(i) ==
    /\ nif # NULL /\ nif.mode = "STA"
    /\ i \notin nif.ip6 => nif.link
    /\ Spend({"ip6"}, TRUE)
    /\ LET n == [nif EXCEPT !.ip6 = IF i \in @ THEN @ \ {i} ELSE @ \cup {i}]
       IN  nif' = n /\ StatusCallback(n, queue)
    /\ UNCHANGED <<nextId, sysMode, staUseDhcp, assoc, dhcpServer, wpc, wmsg,
                   wnif, wAddr, heard4, heard6, spc, smode>>

-----------------------------------------------------------------------------
(* Application thread: net_switch_mode (lines 414-461).  It takes no lock *)
(* and every netifapi call in it waits for the tcpip thread, so the worker *)
(* and the tcpip thread run between its steps.  spc is where it is; smode  *)
(* the mode it was asked for.  A call for the current mode returns at line *)
(* 433 having changed nothing, and is not a step.                          *)

\* No netif: straight to net_open (lines 421-425).
SwitchOpen(mode) ==
    /\ spc = "idle" /\ nif = NULL
    /\ Spend({"switch"}, TRUE)
    /\ spc' = "open" /\ smode' = mode
    /\ UNCHANGED <<nif, nextId, m_ipv4_addr, m_ipv6_addr_state, sysMode,
                   staUseDhcp, assoc, wlanIp, dhcpServer, queue, wpc, wmsg,
                   wnif, wAddr, heard4, heard6>>

\* Another mode: if the netif has a valid IPv4 address, net_config(nif, 0)
\* brings it down, with the status callback that triggers (lines 427-440).
SwitchBringDown(mode) ==
    /\ spc = "idle" /\ nif # NULL /\ mode # nif.mode
    /\ Spend({"switch"}, TRUE)
    /\ IF Ip4Valid(nif) /\ ConfigurableMode
       THEN LET n == NetifConfig(nif, FALSE, ConfFor(sysMode, staUseDhcp), TRUE)
            IN  nif' = n /\ StatusCallback(n, queue)
       ELSE UNCHANGED <<nif, m_ipv4_addr, m_ipv6_addr_state, wlanIp, queue>>
    /\ spc' = "disable" /\ smode' = mode
    /\ UNCHANGED <<nextId, sysMode, staUseDhcp, assoc, dhcpServer, wpc, wmsg,
                   wnif, wAddr, heard4, heard6>>

\* A station whose link is up: wlan_sta_disable (lines 442-444); the
\* driver drops an association and reports it.
SwitchDisable ==
    /\ spc = "disable"
    /\ IF nif.mode = "STA" /\ nif.link /\ assoc
       THEN assoc' = FALSE /\ Send(queue, <<Msg("WLAN_DISCONNECTED", NoSlots)>>)
       ELSE UNCHANGED <<assoc, queue>>
    /\ spc' = "close"
    /\ UNCHANGED <<nif, nextId, m_ipv4_addr, m_ipv6_addr_state, sysMode,
                   staUseDhcp, wlanIp, dhcpServer, wpc, wmsg, wnif, wAddr,
                   heard4, heard6, budget, smode>>

\* net_close (lines 390-412, called at line 450): wlan_stop ends any
\* association; wlan_netif_delete removes the netif, whose set-down runs
\* the status callback with its addresses unchanged.
SwitchClose ==
    /\ spc = "close"
    /\ StatusCallback(nif, queue)
    /\ nif' = NULL
    /\ assoc' = FALSE
    /\ spc' = "open"
    /\ UNCHANGED <<nextId, sysMode, staUseDhcp, dhcpServer, wpc, wmsg, wnif,
                   wAddr, heard4, heard6, budget, smode>>

\* net_open up to netifapi_netif_set_up (lines 346-374): wlan_netif_create
\* may fail (net_switch_mode returns -1, the caches keep their values);
\* on success the dedup caches are reset (lines 361, 363) and set_up runs
\* the callback, which finds nothing changed.
NetOpenCreate ==
    /\ spc = "open"
    /\ \E ok \in BOOLEAN :
          /\ Spend({}, ok)
          /\ IF ok THEN /\ nif' = FreshNetif(nextId + 1, smode)
                        /\ nextId' = nextId + 1
                        /\ m_ipv4_addr' = 0
                        /\ m_ipv6_addr_state' = NoSlots
                        /\ spc' = "start"
                   ELSE /\ spc' = "idle"
                        /\ UNCHANGED <<nif, nextId, m_ipv4_addr, m_ipv6_addr_state>>
    /\ UNCHANGED <<sysMode, staUseDhcp, assoc, wlanIp, dhcpServer, queue, wpc,
                   wmsg, wnif, wAddr, heard4, heard6, smode>>

\* The rest of net_open (lines 376-383): wlan_start, then
\* sysinfo->wlan_mode = mode.
NetOpenStart ==
    /\ spc = "start"
    /\ sysMode' = smode
    /\ spc' = "idle"
    /\ UNCHANGED <<nif, nextId, m_ipv4_addr, m_ipv6_addr_state, staUseDhcp,
                   assoc, wlanIp, dhcpServer, queue, wpc, wmsg, wnif, wAddr,
                   heard4, heard6, budget, smode>>

-----------------------------------------------------------------------------

Next ==
    \/ Receive
    \/ ConnectedIgnored \/ ConnectedLinkUp \/ ConnectedBringUp \/ HandleDisconnected
    \/ HandleNetworkUp \/ HandleNetworkDown \/ HandleIpv6State
    \/ SetIpAddr \/ HandleOnDeletedNetif
    \/ WlanConnect \/ WlanDisconnect
    \/ \E a \in DhcpAddrs : DhcpBind(a)
    \/ DhcpLeaseLost
    \/ \E i \in Slots : Ip6StateChange(i)
    \/ \E mode \in Modes : SwitchOpen(mode) \/ SwitchBringDown(mode)
    \/ SwitchDisable \/ SwitchClose \/ NetOpenCreate \/ NetOpenStart

\* The worker thread is always eventually scheduled.
Fairness ==
    /\ WF_vars(Receive)
    /\ WF_vars(ConnectedIgnored \/ ConnectedLinkUp \/ ConnectedBringUp
               \/ HandleDisconnected
               \/ HandleNetworkUp \/ HandleNetworkDown \/ HandleIpv6State
               \/ HandleOnDeletedNetif)
    /\ WF_vars(SetIpAddr)

Spec == Init /\ [][Next]_vars /\ Fairness

-----------------------------------------------------------------------------
(* Properties                                                              *)

TypeOK ==
    /\ nif \in Netif \cup {NULL}
    /\ nextId \in Nat
    /\ m_ipv4_addr \in Addrs
    /\ m_ipv6_addr_state \in SUBSET Slots
    /\ sysMode \in Modes
    /\ staUseDhcp \in BOOLEAN
    /\ assoc \in BOOLEAN
    /\ wlanIp \in Addrs
    /\ dhcpServer \in BOOLEAN
    /\ queue \in Seq([type: MsgTypes, data: SUBSET Slots])
    /\ Len(queue) <= QueueCap
    /\ wpc \in {"idle", "handle", "config", "set_ip"}
    /\ wmsg \in [type: MsgTypes, data: SUBSET Slots]
    /\ wnif \in 0..nextId
    /\ wAddr \in Addrs
    /\ heard4 \in BOOLEAN
    /\ heard6 \in SUBSET Slots
    /\ spc \in {"idle", "disable", "close", "open", "start"}
    /\ smode \in Modes
    /\ budget \in [DOMAIN Bound -> Nat]

\* Nothing queued and the worker idle: every observer has seen every event.
Quiescent == queue = <<>> /\ wpc = "idle"

(* Once every queued event has been handled, what observers last heard of   *)
(* IPv4 (NETWORK_UP or NETWORK_DOWN) agrees with the netif: up exactly when  *)
(* the current netif has a valid address.  The status callback's dedup     *)
(* (lines 171-185) keeps it while the netif lives; net_switch_mode brings   *)
(* the netif down (lines 438-440) before net_close destroys it silently.    *)
(* But the bring-down is tested once, at line 438, with no lock: a          *)
(* WLAN_CONNECTED or DHCP lease handled after it gives the doomed netif an  *)
(* address and posts NETWORK_UP, and nothing posts the DOWN.                *)
NetworkStateConsistent == Quiescent => (heard4 <=> Ip4Valid(nif))

(* The same for IPv6: the last NETWORK_IPV6_STATE heard carries the valid   *)
(* slots of the current netif (lines 187-203, reset at line 363).           *)
Ip6StateConsistent ==
    Quiescent => heard6 = IF nif = NULL THEN NoSlots ELSE nif.ip6

Ip4Of(n) == IF n = NULL THEN 0 ELSE n.ip4

\* The IPv4 events not yet handled: the one the worker holds, then the queue.
InHand == IF wpc = "handle" THEN <<wmsg>> ELSE <<>>
PendingIp4 ==
    LET s == SelectSeq(InHand \o queue,
                       LAMBDA m : m.type \in {"NETWORK_UP", "NETWORK_DOWN"})
    IN  [k \in DOMAIN s |-> s[k].type = "NETWORK_UP"]

(* The IPv4 signal observers of the queue get is the one Ip4Signal          *)
(* specifies: every change of the current netif's address posts exactly one *)
(* NETWORK_UP or NETWORK_DOWN saying whether the new address is valid, and *)
(* the worker hands every one of them on, in order, since it is always    *)
(* eventually scheduled (Fairness).  The status callback compares with     *)
(* its own process-wide cache (lines 171-185), which net_open resets (line  *)
(* 361), so this holds only if nothing but net_close (Ip4Signal's Destroy) *)
(* ever changes the address without an event: a reset cache must never    *)
(* meet a netif whose address it had already reported.                     *)
Signal == INSTANCE Ip4Signal WITH addr <- Ip4Of(nif), pending <- PendingIp4,
                                  heard <- heard4
NoStaleNetifUse == wpc \in {"handle", "config", "set_ip"} => ~WorkerNetifDeleted

(* A message the worker has taken is eventually handled completely: no      *)
(* handler waits forever.  A handler's netifapi call waits for the tcpip     *)
(* thread, whose status callback waits for room in the queue the handler's  *)
(* own thread drains (net_ctrl_msg_send, OS_WAIT_FOREVER, line 465).         *)
HandlerCompletes == wpc # "idle" ~> wpc = "idle"

(* Once the worker has drained the queue, the netif's link is up exactly   *)
(* when the radio is associated: net_ctrl_msg_process sets the link from   *)
(* WLAN_CONNECTED / WLAN_DISCONNECTED (lines 508-520), and net_switch_mode *)
(* is to serialise against link events in flight.                         *)
LinkFollowsAssoc == Quiescent => (nif # NULL => (nif.link <=> assoc))

(* The DHCP server runs only while there is an access-point netif for it:   *)
(* netif_up_handler starts it for a HOSTAP netif (line 89), and the bring- *)
(* down that net_switch_mode runs before destroying the netif (lines        *)
(* 438-440) is to release the interface's DHCP state with its address.    *)
DhcpServerOnlyOnAp == dhcpServer => (nif # NULL /\ nif.mode = "HOSTAP")
=============================================================================
