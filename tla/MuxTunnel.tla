------------------------------ MODULE MuxTunnel ------------------------------
(***************************************************************************)
(* The sessions of MUX mode on the tunnel of WsTunnel                      *)
(* (crates/hydr-transport/src/ws.rs).  The client authenticates a stream   *)
(* id with authenticate, before or while it opens the stream of that id,   *)
(* or not at all; a server in MUX mode keeps the ids whose request its     *)
(* validate accepted, and answers an open of any other id itself with an   *)
(* error, without an event for its tunnel loop.  A server that is not in   *)
(* MUX mode answers AUTH_REQUEST as well, and keeps nothing.               *)
(*                                                                         *)
(* The frames of an authentication travel the queues of the data, and both *)
(* answers are sent from inside handle_frame, which waits for room in      *)
(* frame_tx like any command.                                              *)
(***************************************************************************)
EXTENDS WsTunnel

CONSTANT SessionLoads  \* bound: the workloads under which requests are made

VARIABLES
    mux,       \* whether the server is in MUX mode
    sessions,  \* the server's sessions: the stream ids it has authenticated
    sent,      \* sent[s]: whether the request of s passes validate, if it was made
    auth,      \* auth[s]: how far the client's authenticate call is
    under      \* history: under[s], the stream was opened after a good request

muxVars == <<mux, sessions, sent, auth, under>>
muxTunnelVars == <<vars, muxVars>>

MuxInit ==
    /\ Init
    /\ mux \in BOOLEAN
    /\ sessions = {}
    /\ sent = [s \in Streams |-> "none"]
    /\ auth = [s \in Streams |-> "idle"]
    /\ under = [s \in Streams |-> FALSE]

----------------------------------------------------------------------------
\* authenticate: the entry of pending_auth, Cmd::SendFrame, then wait for the
\* answer.
Authenticate(s, credential) ==
    /\ auth[s] = "idle" /\ chunks \in SessionLoads
    /\ LET status == IF credential = "good" THEN STATUS_OK ELSE STATUS_ERR
       IN  Command("client", Frame("authRequest", s, status), "none")
    /\ auth' = [auth EXCEPT ![s] = "waiting"]
    /\ sent' = [sent EXCEPT ![s] = credential]
    /\ UNCHANGED <<chunks, up, run, frameQ, wire, openVars, pumpVars, outstanding, dgramVars,
                   readVars,
                   mux, sessions, under>>

\* The command channel is closed: Error::StreamClosed.
AuthenticateFails(s) ==
    /\ auth[s] = "idle" /\ chunks \in SessionLoads
    /\ ~up["client"]
    /\ auth' = [auth EXCEPT ![s] = "err"]
    /\ UNCHANGED <<vars, mux, sessions, sent, under>>

OpenSession(s) ==
    /\ OpenStream(s)
    /\ under' = [under EXCEPT ![s] = sent[s] = "good"]
    /\ UNCHANGED <<mux, sessions, sent, auth>>

----------------------------------------------------------------------------
\* handle_frame on frame f of p's peer, as far as it is about sessions: next is
\* what the run task does then.
Takes(p, type, f, next) ==
    /\ up[p] /\ run[p] = Idle /\ ~Waiting(p)
    /\ wire[Other(p)] # <<>> /\ f = Head(wire[Other(p)]) /\ f.type = type
    /\ wire' = [wire EXCEPT ![Other(p)] = Tail(@)]
    /\ run' = [run EXCEPT ![p] = next]
    /\ UNCHANGED <<chunks, up, cmdQ, frameQ, registered, pumpVars, outstanding, dgramVars,
                   readVars>>

\* FRAME_AUTH_REQUEST: the id joins the sessions before the answer is sent.
\* Mutants: it joins whatever validate says; the answer is for the handshake only.
HandleAuthRequestBlindly(f) ==
    /\ Takes("server", "authRequest", f, Sending(Frame("authResponse", f.id, f.n), "none"))
    /\ sessions' = IF mux THEN sessions \cup {f.id} ELSE sessions
    /\ UNCHANGED <<openVars, mux, sent, auth, under>>
HandleAuthRequestMutely(f) ==
    /\ Takes("server", "authRequest", f, Idle)
    /\ sessions' = IF mux /\ f.n = STATUS_OK THEN sessions \cup {f.id} ELSE sessions
    /\ UNCHANGED <<openVars, mux, sent, auth, under>>
HandleAuthRequest(f) ==
    /\ Takes("server", "authRequest", f, Sending(Frame("authResponse", f.id, f.n), "none"))
    /\ sessions' = IF mux /\ f.n = STATUS_OK THEN sessions \cup {f.id} ELSE sessions
    /\ UNCHANGED <<openVars, mux, sent, auth, under>>

\* FRAME_AUTH_RESPONSE: out of pending_auth, and authenticate returns.
HandleAuthResponse(f) ==
    /\ Takes("client", "authResponse", f, Idle)
    /\ auth' = [auth EXCEPT ![f.id] =
                  IF @ # "waiting" THEN @ ELSE IF f.n = STATUS_OK THEN "ok" ELSE "denied"]
    /\ UNCHANGED <<openVars, mux, sessions, sent, under>>

\* FRAME_OPEN_STREAM of an id that is not in the sessions.
RefuseOpen(f) ==
    /\ mux /\ f.id \notin sessions
    /\ Takes("server", "open", f, Sending(Frame("ack", f.id, STATUS_ERR), "none"))
    /\ acceptor' = [acceptor EXCEPT ![f.id] = "barred"]
    /\ UNCHANGED <<pending, registered, opener, muxVars>>

Barred(f) == mux /\ f.type = "open" /\ f.id \notin sessions
HandleOther(p) ==
    /\ HandleFrame(p)
    /\ ~Barred(Head(wire[Other(p)]))
    /\ UNCHANGED muxVars

----------------------------------------------------------------------------
\* What handle_frame does with a frame about sessions.
HandleSessions(p) ==
    /\ wire[Other(p)] # <<>>
    /\ LET f == Head(wire[Other(p)]) IN
         \/ p = "server" /\ (HandleAuthRequest(f) \/ RefuseOpen(f))
         \/ p = "client" /\ HandleAuthResponse(f)

\* The end of run leaves pending_auth alone: authenticate goes on waiting.
MuxRunStep(p) ==
    \/ (TakeCmd(p) \/ SendFrame(p) \/ NoticeLoss(p)) /\ UNCHANGED muxVars
    \/ HandleOther(p) \/ HandleSessions(p)

MuxNext ==
    \/ \E s \in Streams :
        \/ Authenticate(s, "good") \/ Authenticate(s, "bad") \/ AuthenticateFails(s)
        \/ OpenSession(s)
        \/ (OpenFails(s) \/ TakeEvent(s) \/ ReplyOpen(s)) /\ UNCHANGED muxVars
    \/ \E p \in Peers :
        \/ MuxRunStep(p)
        \/ (Write(p) \/ LoseConnection(p) \/ TakeDatagram(p)) /\ UNCHANGED muxVars
        \/ \E s \in Streams : (StreamStep(p, s) \/ SendDatagram(p, s)) /\ UNCHANGED muxVars

\* The same tasks as in WsTunnel.
MuxFairness ==
    /\ \A s \in Streams : WF_muxTunnelVars(ReplyOpen(s) /\ UNCHANGED muxVars)
    /\ \A p \in Peers :
         /\ WF_muxTunnelVars(MuxRunStep(p))
         /\ WF_muxTunnelVars(up[p] /\ Write(p) /\ UNCHANGED muxVars)
         /\ WF_muxTunnelVars(TunnelLoop(p) /\ UNCHANGED muxVars)
         /\ \A s \in Streams : WF_muxTunnelVars(StreamStep(p, s) /\ UNCHANGED muxVars)

MuxSpec == MuxInit /\ [][MuxNext]_muxTunnelVars
FairMuxSpec == MuxSpec /\ MuxFairness

----------------------------------------------------------------------------
\* The types of the tunnel and of its sessions; the bounded queues keep their bound.
MuxTypeOK ==
    /\ TypeOK
    /\ mux \in BOOLEAN
    /\ sessions \subseteq Streams
    /\ sent \in [Streams -> {"none", "good", "bad"}]
    /\ auth \in [Streams -> {"idle", "waiting", "ok", "denied", "err"}]
    /\ under \in [Streams -> BOOLEAN]

\* In MUX mode the server's tunnel loop sees exactly the streams of the ids that
\* were authenticated: none whose request failed or was never made, and an open
\* that follows a good request is never barred, although nobody waits for the
\* answer; without MUX none is barred.
MuxEnforced ==
    \A s \in Streams :
        /\ acceptor[s] \in {"event", "taken", "accepted", "refused"} => ~mux \/ sent[s] = "good"
        /\ acceptor[s] = "barred" => mux /\ ~under[s]

\* authenticate returns, and returns what validate said of its own request,
\* unless the connection is lost or the two run tasks block each other.
AuthAnswered ==
    \A s \in Streams :
        auth[s] = "waiting" ~> \/ auth[s] = "ok" /\ sent[s] = "good"
                               \/ auth[s] = "denied" /\ sent[s] = "bad"
                               \/ Lost \/ MutuallyBlocked
=============================================================================
