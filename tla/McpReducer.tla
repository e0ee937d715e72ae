------------------------------ MODULE McpReducer ------------------------------
(***************************************************************************)
(* The admission rule of an MCP connection (src/src/mcp/session.rs          *)
(* Session::validate), which the daemon's session and the stdio relay apply *)
(* to the same requests.                                                   *)
(***************************************************************************)
EXTENDS Integers

Modes == {"unselected", "modern", "await", "ready"}

Refused(code) == [mode |-> "", action |-> "error", code |-> code]

Admitted(mode, action) == [mode |-> mode, action |-> action, code |-> 0]

\* initialize selects the legacy protocol, and only a fresh connection may.
ValidateInitialize(mode, k) ==
    IF mode # "unselected" THEN Refused(-32600)
    ELSE IF ~k.ok THEN Refused(-32602)
    ELSE Admitted("await", "initialize")

\* Every other request either carries metadata and selects the modern protocol,
\* or comes without it on a connection whose legacy handshake is complete.
ProtocolRefusal(mode, k) ==
    IF mode = "await" THEN -32600
    ELSE IF mode # "ready"
    THEN CASE k.meta = "none" -> -32602 [] k.meta = "version" -> -32022 [] OTHER -> 0
    ELSE IF k.method = "discover" \/ k.meta # "none" THEN -32600 ELSE 0

Validate(mode, k) ==
    IF k.method = "initialize" THEN ValidateInitialize(mode, k)
    ELSE IF ProtocolRefusal(mode, k) # 0 THEN Refused(ProtocolRefusal(mode, k))
    ELSE IF k.method # "unknown" /\ ~k.ok THEN Refused(-32602)
    ELSE Admitted(IF mode = "ready" THEN "ready" ELSE "modern", k.method)

\* notifications/initialized
Initialized(mode) == IF mode = "await" THEN "ready" ELSE mode

=============================================================================
