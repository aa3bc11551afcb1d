----------------------------- MODULE MCGateway -----------------------------
(* The messages that enter the gateway in the run. *)
EXTENDS Gateway

Bytes(n) == [of |-> "bytes", len |-> n]
Msg(at, type, sig, src, des, ifs, data) ==
  [at |-> at, type |-> type, sig |-> sig, src |-> src, des |-> des,
   if_src_type |-> ifs[1], if_des_type |-> ifs[2], data |-> data]

ToUart == <<"UART_GW", "UART_AC">>
FromUart == <<"UART_AC", "UART_GW">>
FromStick == <<"RF24_AC", "RF24_GW">>
FromApp == <<"APP_GMNG", "APP_GW">>

(* What the other boards and processes send: orders the tasks know, and some
   that end the process.                                                   *)
Incoming == {
  Msg("usb", "COMMON", GW_FW.CURRENT_INFO_RES, "node", "FW", FromStick, Bytes(64)),
  Msg("usb", "PURE", GW_FW.INTERNAL_UPDATE_REQ, "node", "FW", FromStick, NoData),
  Msg("usb", "COMMON", GW_FW.CURRENT_INFO_RES, "node", "FW", FromStick, Bytes(4)),
  Msg("socket", "COMMON", GW_FW.OTA_REQ, "app", "FW", FromApp, Bytes(4)),
  Msg("serial", "DYNAMIC", GW_DEBUG_MSG_1, "device", "DEBUG", FromUart, Bytes(254)),
  Msg("serial", "COMMON", 10, "device", "SENSOR", FromUart, Bytes(65)),
  Msg("usb", "DYNAMIC", 10, "node", "SENSOR", FromApp, Bytes(2)),
  Msg("usb", "COMMON", 13, "node", "SYS", FromStick, Bytes(1)),
  Msg("socket", "PURE", 10, "app", "SENSOR", FromApp, NoData),
  Msg("socket", "COMMON", GW_DEBUG_MSG_1, "app", "DEBUG", FromApp, Bytes(1)),
  Msg("socket", "PURE", 10, "app", "elsewhere", FromApp, NoData),
  Msg("socket", "DYNAMIC", GW_FW.OTA_REQ, "app", "FW", FromApp, Bytes(4))}

Outgoing == {
  Msg("FW", "PURE", 10, "FW", "device task", ToUart, NoData),
  Msg("FW", "COMMON", 12, "FW", "device task", ToUart, Bytes(64)),
  Msg("FW", "COMMON", 12, "FW", "node task", <<"RF24_GW", "RF24_AC">>, Bytes(64)),
  Msg("FW", "COMMON", 10, "FW", "app task", <<"APP_GW", "APP_GMNG">>, Bytes(4)),
  Msg("console", "DYNAMIC", 10, Unset, "device task", FromUart, Bytes(254))}

Inside == {
  Msg("local", "PURE", GW_FW.PACKED_TIMEOUT, "TIMER", "FW", <<Unset, Unset>>, NoData),
  Msg("local", "PURE", 12, "TIMER", "DEBUG", <<Unset, Unset>>, NoData),
  Msg("local", "PURE", 21, "TIMER", "DEBUG", <<Unset, Unset>>, NoData),
  Msg("local", "PURE", 13, "TIMER", "DEBUG", <<Unset, Unset>>, NoData),
  Msg("local", "DYNAMIC", GW_FW.OTA_REQ, "CONSOLE", "FW", <<Unset, Unset>>,
      [of |-> "app update", len |-> UpdateReqSize])}

Offers == Incoming \cup Outgoing \cup Inside

ASSUME OffersFit == OffersAreOrderly
=============================================================================
