---------------------------- MODULE BrowserServe ----------------------------
(***************************************************************************)
(* Explicit serve registration (BrowserProvisioner in src/daemon/mod.rs,   *)
(* the serve arm of dispatch_connection and serve_via_daemon in            *)
(* src/main.rs): several clients ask the elected daemon for the browser    *)
(* listener, each with a bind address, a token file and the options of a   *)
(* checkout. The daemon has one listener with one token. Meanwhile token   *)
(* files are rewritten or replaced, and the daemon stops.                  *)
(***************************************************************************)
EXTENDS Naturals

CONSTANTS
    Clients,
    Checkouts,
    Nobody,        \* no client
    MaxEdits       \* bound: edits of token files

Binds == {1, 2}
Files == {1, 2}
Options == {1, 2}
Tokens == {1, 2}

VARIABLES
    file,        \* token path -> inode (0: absent) and token (0: not a valid token file)
    edits,
    prov,        \* the provisioner: bind, token path, inode, token, all 0 before the first serve
    closed,      \* the server task has ended
    registered,  \* checkout -> its options, 0 for none
    stopping,    \* the daemon is on its way out
    call,        \* client -> its request and where it is
    holder       \* the client in the provisioning mutex and the registry guard

vars == <<file, edits, prov, closed, registered, stopping, call, holder>>

NoFile == [ino |-> 0, tok |-> 0]
Bare == [bind |-> 0, path |-> 0, ino |-> 0, tok |-> 0]
NoCall == [pc |-> "idle", bind |-> 0, path |-> 0, checkout |-> 0, opt |-> 0, seen |-> NoFile]

TypeOK ==
    /\ \A f \in Files : file[f].ino \in 0..(MaxEdits + 9) /\ file[f].tok \in 0..2
    /\ (prov = Bare) \/ (prov.bind \in Binds /\ prov.path \in Files /\ prov.ino # 0 /\ prov.tok \in Tokens)
    /\ closed \in BOOLEAN /\ stopping \in BOOLEAN
    /\ registered \in [Checkouts -> 0..2]
    /\ \A c \in Clients : call[c].pc \in {"idle", "asked", "observe", "check", "refused", "served", "ended"}
    \* The mutex is held exactly while a registration is on its way.
    /\ \A c \in Clients : (call[c].pc \in {"observe", "check"}) = (holder = c)

Init ==
    /\ \E f \in {NoFile, [ino |-> 9, tok |-> 1], [ino |-> 9, tok |-> 0]} :
         file = [t \in Files |-> IF t = 1 THEN f ELSE NoFile]
    /\ edits = 0 /\ prov = Bare /\ closed = FALSE /\ registered = [k \in Checkouts |-> 0]
    /\ stopping = FALSE /\ call = [c \in Clients |-> NoCall] /\ holder = Nobody

(***************************************************************************)
(* The token files, and the end of the daemon.                             *)
(***************************************************************************)
Edit(f) ==
    /\ edits < MaxEdits /\ edits' = edits + 1
    /\ \/ file[f].ino # 0 /\ \E t \in 0..2 : file' = [file EXCEPT ![f].tok = t]
       \/ \E t \in Tokens : file' = [file EXCEPT ![f] = [ino |-> edits + 1, tok |-> t]]
       \/ file' = [file EXCEPT ![f] = NoFile]
    /\ UNCHANGED <<prov, closed, registered, stopping, call, holder>>

\* run_daemon after idle exit: control connections and the browser are told.
Stop ==
    /\ ~stopping /\ stopping' = TRUE
    /\ UNCHANGED <<file, edits, prov, closed, registered, call, holder>>

\* spawn_with_shutdown: the server task ends on the signal, or by itself.
ServerEnds ==
    /\ prov # Bare /\ ~closed /\ closed' = TRUE
    /\ UNCHANGED <<file, edits, prov, registered, stopping, call, holder>>

(***************************************************************************)
(* A serve request.                                                        *)
(***************************************************************************)
\* serve_via_daemon sends the request; a stopped daemon accepts no connection.
Ask(c) ==
    /\ call[c].pc = "idle" /\ ~stopping
    /\ \E b \in Binds, f \in Files, k \in Checkouts, o \in Options :
          call' = [call EXCEPT ![c] = [NoCall EXCEPT !.pc = "asked", !.bind = b, !.path = f, !.checkout = k, !.opt = o]]
    /\ UNCHANGED <<file, edits, prov, closed, registered, stopping, holder>>

\* can_register: other options than the registered ones only once the checkout
\* is released.
MayRegister(c, released) == registered[call[c].checkout] \in {0, call[c].opt} \/ released

\* A running listener is joined only with its own address and token path.
Compatible(c) == prov.bind = call[c].bind /\ prov.path = call[c].path

\* load_or_create_token: a new file gets a random token; one that is there is left.
TokenFile(f) == IF file[f].ino = 0 THEN [ino |-> MaxEdits + 1 + f, tok |-> 2] ELSE file[f]

\* register_serve under both guards: the checkout, then the running listener, or
\* a new one with its token file; no registration yet.
Enter(c) ==
    /\ call[c].pc = "asked" /\ holder = Nobody
    /\ \E released \in BOOLEAN : IF MayRegister(c, released) /\ (prov # Bare => ~closed /\ Compatible(c))
       THEN /\ call' = [call EXCEPT ![c].pc = "observe"] /\ holder' = c
            /\ file' = IF prov = Bare THEN [file EXCEPT ![call[c].path] = TokenFile(call[c].path)] ELSE file
       ELSE call' = [call EXCEPT ![c].pc = "refused"] /\ UNCHANGED <<file, holder>>
    /\ UNCHANGED <<edits, prov, closed, registered, stopping>>

\* A bind that fails, an unreadable option, a directory that is no checkout.
Reject(c) ==
    /\ call[c].pc = "asked" /\ holder = Nobody
    /\ call' = [call EXCEPT ![c].pc = "refused"]
    /\ UNCHANGED <<file, edits, prov, closed, registered, stopping, holder>>

\* checked_token: contents and identity through one descriptor.
Observe(c) ==
    /\ call[c].pc = "observe"
    /\ IF file[call[c].path].tok = 0
       THEN call' = [call EXCEPT ![c].pc = "refused"] /\ holder' = Nobody
       ELSE call' = [call EXCEPT ![c].pc = "check", ![c].seen = file[call[c].path]] /\ UNCHANGED holder
    /\ UNCHANGED <<file, edits, prov, closed, registered, stopping>>

SameToken(c) == prov.ino = call[c].seen.ino /\ prov.tok = call[c].seen.tok

\* check_token_path: the path still names the file that was read.
StillNamed(c) == file[call[c].path].ino = call[c].seen.ino

Leave(c, pc) == call' = [call EXCEPT ![c].pc = pc] /\ holder' = Nobody

\* The rest of register_serve: registration (same: the directory is still the
\* checkout that was asked for), the provisioner's fields, the reply.
\* A listener that closed meanwhile is an error although the checkout is registered.
Check(c) ==
    /\ call[c].pc = "check"
    /\ \E same \in BOOLEAN : IF same /\ StillNamed(c) /\ (prov # Bare => SameToken(c))
       THEN /\ registered' = [registered EXCEPT ![call[c].checkout] = call[c].opt]
            /\ prov' = IF prov # Bare THEN prov
                       ELSE [bind |-> call[c].bind, path |-> call[c].path,
                             ino |-> call[c].seen.ino, tok |-> call[c].seen.tok]
            /\ Leave(c, IF prov # Bare /\ closed THEN "refused" ELSE "served")
       ELSE Leave(c, "refused") /\ UNCHANGED <<registered, prov>>
    /\ UNCHANGED <<file, edits, closed, stopping>>

ToldToStop == stopping

\* The control connection ends with its client, or with the daemon; a refused
\* client is gone after its reply.
ControlEnds(c) ==
    /\ call[c].pc = "refused" \/ (call[c].pc = "served" /\ ToldToStop)
    /\ call' = [call EXCEPT ![c].pc = "ended"]
    /\ UNCHANGED <<file, edits, prov, closed, registered, stopping, holder>>

\* The client is interrupted, or gave up waiting for the reply.
ClientQuits(c) ==
    /\ call[c].pc = "served"
    /\ call' = [call EXCEPT ![c].pc = "ended"]
    /\ UNCHANGED <<file, edits, prov, closed, registered, stopping, holder>>

Serve(c) == Enter(c) \/ Observe(c) \/ Check(c) \/ ControlEnds(c)
Next ==
    \/ \E f \in Files : Edit(f)
    \/ Stop \/ ServerEnds
    \/ \E c \in Clients : Ask(c) \/ Reject(c) \/ Serve(c) \/ ClientQuits(c)

Spec == Init /\ [][Next]_vars

(***************************************************************************)
(* Properties.                                                             *)
(***************************************************************************)
\* Everyone who was told that the browser is served was told of one address and
\* one token file, and saw in that file the token the listener asks for, although
\* files are rewritten between the requests.
ServedAgree ==
    \A c \in Clients : call[c].pc = "served" =>
        /\ call[c].bind = prov.bind /\ call[c].path = prov.path
        /\ call[c].seen = [ino |-> prov.ino, tok |-> prov.tok]

\* A token file replaced while it is observed is not taken over: the answer is
\* given with the path still naming the file that was read.
PathHeldAtAnswer ==
    \A c \in Clients : (call[c].pc = "check" /\ call'[c].pc = "served") =>
       file[call[c].path].ino = prov'.ino

\* "All conflicts are checked before touching registration, listener or another
\* checkout's settings": unless the listener closed meanwhile, a request that ends
\* refused has changed none of them.
RefusedLeavesAlone ==
    \A c \in Clients : call'[c].pc \in {"refused", "observe", "check"} /\ call'[c].pc # call[c].pc =>
       (prov' = prov /\ (registered' = registered \/ closed))

====
