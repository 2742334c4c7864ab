-------------------------- MODULE TelegramSession --------------------------
(***************************************************************************)
(* The one Telegram client of the process and the realtime listener on it. The *)
(* monitor and the login routes run in the loop of the application, a search in *)
(* the loop of its job; whoever finds the client in another loop disconnects it  *)
(* and connects one of its own. The lock around that is made anew for each loop, *)
(* so that two loops do not exclude each other. The monitor checks in passes     *)
(* whether the listener lives and repairs it.                                    *)
(***************************************************************************)
EXTENDS Integers, FiniteSets

CONSTANTS Source,           \* the configured groups and channels
          ConnectRetries,   \* TELEGRAM_CLIENT_CONNECT_RETRIES
          MaxSessionFaults, \* bound: failing attempts to connect, unresolved sources, lost connections
          MaxBorrows        \* bound: searches that take the client into their loop

VARIABLES client,        \* _client: a number, 0: none
          clientLoop,    \* _client_loop
          connected,     \* the clients that are connected, the process may know them or not
          initLock,      \* _client_init_lock: [loop, id]
          caller,        \* who calls client(): [at, lock, got, attempt, checked]
          cooldown,      \* a failure to connect is remembered, for 45 s
          authorized,    \* the session file is one that is logged in
          listener,      \* the client of _listener_task, Stopped, or 0
          handler,       \* the handler that is registered: [on, sources]
          dialog,        \* [source -> unknown | resolved | negative]
          sessionFaults,
          borrows

sessionVars == <<client, clientLoop, connected, initLock, caller, cooldown, authorized, listener, handler,
                 dialog, sessionFaults, borrows>>

Caller == {"monitor", "login", "search"}
LoopOf(c) == IF c = "search" THEN "job" ELSE "app"
Stopped == -1
NoHandler == [on |-> 0, sources |-> {}]
Resting == [at |-> "idle", lock |-> 0, got |-> 0, attempt |-> 0, checked |-> FALSE]

Smallest(free) == CHOOSE n \in free : \A k \in free : n <= k
FreshClient ==
    Smallest((1 .. 6) \ (connected \cup {client, listener, handler.on} \cup {caller[c].got : c \in Caller}))

-----------------------------------------------------------------------------
(* client() *)

ClientIsUsable(c) == client \in connected /\ clientLoop = LoopOf(c)

\* The connected client of this loop, or the lock of this loop.
AskClient(c) ==
    LET own == initLock.loop = LoopOf(c)
        id  == IF own THEN initLock.id ELSE Smallest((1 .. 4) \ ({caller[d].lock : d \in Caller} \cup {initLock.id}))
    IN  IF ClientIsUsable(c)
        THEN /\ caller' = [caller EXCEPT ![c] = [@ EXCEPT !.at = "using", !.got = client]]
             /\ UNCHANGED initLock
        ELSE /\ caller' = [caller EXCEPT ![c] = [@ EXCEPT !.at = "waiting", !.lock = id]]
             /\ initLock' = [loop |-> LoopOf(c), id |-> id]

LockIsFree(c) == \A d \in Caller \ {c} : caller[d].at = "connecting" => caller[d].lock # caller[c].lock

\* Under the lock it looks again, and disconnects what another loop has.
EnterLock(c) ==
    /\ caller[c].at = "waiting" /\ LockIsFree(c)
    /\ IF ClientIsUsable(c)
       THEN /\ caller' = [caller EXCEPT ![c] = [@ EXCEPT !.at = "using", !.lock = 0, !.got = client]]
            /\ UNCHANGED connected
       ELSE /\ connected' = connected \ {client}
            /\ caller' = [caller EXCEPT ![c] = IF cooldown THEN Resting
                                               ELSE [@ EXCEPT !.at = "connecting", !.attempt = 1]]
    /\ UNCHANGED <<client, clientLoop, initLock, cooldown, authorized, listener, handler, dialog, sessionFaults,
                   borrows>>

ConnectClient(c) ==
    /\ caller[c].at = "connecting"
    /\ client' = FreshClient /\ clientLoop' = LoopOf(c) /\ connected' = connected \cup {FreshClient}
    /\ caller' = [caller EXCEPT ![c] = [@ EXCEPT !.at = "using", !.lock = 0, !.got = FreshClient, !.attempt = 0]]
    /\ cooldown' = FALSE
    /\ UNCHANGED <<initLock, authorized, listener, handler, dialog, sessionFaults, borrows>>

\* Whatever client the process has by now, also that of another loop.
ResetClientState == client' = 0 /\ clientLoop' = "none" /\ connected' = connected \ {client}

\* Some attempts, if waiting may help; a locked session file resets the client
\* before each. A session that is corrupt or used elsewhere is put aside.
HandleClientConnectFailure(c) ==
    /\ caller[c].at = "connecting" /\ sessionFaults < MaxSessionFaults
    /\ sessionFaults' = sessionFaults + 1
    /\ \E category \in {"session-locked", "timeout", "session-duplicated", "unknown"} :
         LET retry == caller[c].attempt < ConnectRetries /\ category \in {"session-locked", "timeout"}
         IN  /\ IF retry /\ category = "timeout" THEN UNCHANGED <<client, clientLoop, connected>> ELSE ResetClientState
             /\ caller' = [caller EXCEPT ![c] = IF retry THEN [@ EXCEPT !.attempt = @ + 1] ELSE Resting]
             /\ cooldown' = (cooldown \/ (~retry /\ category = "timeout"))
             /\ authorized' = (authorized /\ category # "session-duplicated")
    /\ UNCHANGED <<initLock, listener, handler, dialog, borrows>>

InitCooldownExpires ==
    /\ cooldown /\ cooldown' = FALSE
    /\ UNCHANGED <<client, clientLoop, connected, initLock, caller, authorized, listener, handler, dialog, sessionFaults,
                   borrows>>

-----------------------------------------------------------------------------
(* The monitor *)

Rests(c) == caller' = [caller EXCEPT ![c] = Resting]

\* A pass asks for the client, to see whether it is logged in, and once more.
MonitorBegins ==
    /\ caller["monitor"].at = "idle"
    /\ AskClient("monitor")
    /\ UNCHANGED <<client, clientLoop, connected, cooldown, authorized, listener, handler, dialog, sessionFaults, borrows>>

IsAuthorized ==
    /\ caller["monitor"].at = "using" /\ ~caller["monitor"].checked
    /\ caller' = [caller EXCEPT !["monitor"] =
                     [Resting EXCEPT !.checked = authorized /\ caller["monitor"].got \in connected]]
    /\ UNCHANGED <<client, clientLoop, connected, initLock, cooldown, authorized, listener, handler, dialog, sessionFaults,
                   borrows>>

\* A source is taken from a cache, or asked for; what fails is known as its raw
\* name, for 3 minutes.
ResolveDialogs(g) ==
    {d \in [Source -> {"resolved", "negative"}] :
       \A s \in Source : /\ dialog[s] # "unknown" => d[s] = dialog[s]
                         /\ dialog[s] = "unknown" /\ g \notin connected => d[s] = "negative"
                         /\ dialog[s] = "unknown" /\ sessionFaults = MaxSessionFaults /\ g \in connected => d[s] = "resolved"}

ListenerAlive == listener \notin {0, Stopped}
\* Mutant: a handler is enough, whether its listener lives or not.
HandlerIsHealthy(key) == handler.on # 0 /\ handler.sources = key

MonitorIsHealthy(key) == ListenerAlive /\ handler.on # 0 /\ handler.sources = key

\* A stopped listener takes its handler with it. One that lives keeps its client,
\* whichever client the new handler is registered on.
EnsureMonitoring ==
    LET g == caller["monitor"].got
    IN  /\ caller["monitor"].at = "using" /\ caller["monitor"].checked
        /\ Rests("monitor")
        /\ \E found \in ResolveDialogs(g) :
             LET key  == {s \in Source : found[s] = "resolved"}
                 lost == \E s \in Source : dialog[s] = "unknown" /\ found[s] = "negative" /\ g \in connected
             IN  /\ dialog' = found
                 /\ sessionFaults' = IF lost THEN sessionFaults + 1 ELSE sessionFaults
                 /\ IF MonitorIsHealthy(key) THEN UNCHANGED <<listener, handler>>
                    ELSE /\ handler' = [on |-> g, sources |-> key]
                         /\ listener' = IF ListenerAlive THEN listener ELSE g
        /\ UNCHANGED <<client, clientLoop, connected, initLock, cooldown, authorized, borrows>>

\* run_until_disconnected ends.
ListenerStops ==
    /\ ListenerAlive /\ listener \notin connected
    /\ listener' = Stopped
    /\ UNCHANGED <<client, clientLoop, connected, initLock, caller, cooldown, authorized, handler, dialog, sessionFaults,
                   borrows>>

DialogCachesExpire(s) ==
    /\ dialog[s] # "unknown" /\ dialog' = [dialog EXCEPT ![s] = "unknown"]
    /\ UNCHANGED <<client, clientLoop, connected, initLock, caller, cooldown, authorized, listener, handler,
                   sessionFaults, borrows>>

ConnectionIsLost ==
    /\ sessionFaults < MaxSessionFaults /\ sessionFaults' = sessionFaults + 1
    /\ connected # {} /\ connected' = {}
    /\ UNCHANGED <<client, clientLoop, initLock, caller, cooldown, authorized, listener, handler, dialog, borrows>>

-----------------------------------------------------------------------------
(* A search in a job, and the login routes *)

BorrowBegins ==
    /\ caller["search"].at = "idle" /\ borrows < MaxBorrows
    /\ borrows' = borrows + 1
    /\ AskClient("search")
    /\ UNCHANGED <<client, clientLoop, connected, cooldown, authorized, listener, handler, dialog, sessionFaults>>

\* The loop of the job ends; its client may look connected for ever.
SearchEndsIn ==
    /\ caller["search"].at = "using"
    /\ Rests("search")
    /\ connected' \in {connected, connected \ {caller["search"].got}}
    /\ UNCHANGED <<client, clientLoop, initLock, cooldown, authorized, listener, handler, dialog, sessionFaults, borrows>>

LoginBegins ==
    /\ caller["login"].at = "idle" /\ ~authorized
    /\ AskClient("login")
    /\ UNCHANGED <<client, clientLoop, connected, cooldown, authorized, listener, handler, dialog, sessionFaults, borrows>>

SignIn ==
    /\ caller["login"].at = "using"
    /\ Rests("login")
    /\ authorized' \in {authorized} \cup {caller["login"].got \in connected}
    /\ UNCHANGED <<client, clientLoop, connected, initLock, cooldown, listener, handler, dialog, sessionFaults, borrows>>

\* Telegram saw the session at two addresses: the file is put aside.
HandleLoginSessionError ==
    /\ caller["login"].at = "using" /\ sessionFaults < MaxSessionFaults
    /\ sessionFaults' = sessionFaults + 1
    /\ Rests("login")
    /\ authorized' = FALSE /\ ResetClientState
    /\ UNCHANGED <<initLock, cooldown, listener, handler, dialog, borrows>>

-----------------------------------------------------------------------------
SessionInit ==
    /\ client = 0 /\ clientLoop = "none" /\ connected = {}
    /\ initLock = [loop |-> "none", id |-> 0]
    /\ caller = [c \in Caller |-> Resting]
    /\ cooldown = FALSE /\ authorized = TRUE
    /\ listener = 0 /\ handler = NoHandler
    /\ dialog = [s \in Source |-> "unknown"]
    /\ sessionFaults = 0 /\ borrows = 0

ClientStep(c) == EnterLock(c) \/ ConnectClient(c) \/ HandleClientConnectFailure(c)
MonitorStep == MonitorBegins \/ ClientStep("monitor") \/ IsAuthorized \/ EnsureMonitoring
SearchStep == ClientStep("search") \/ SearchEndsIn
LoginStep == ClientStep("login") \/ SignIn \/ HandleLoginSessionError

SessionNext ==
    \/ MonitorStep \/ SearchStep \/ LoginStep
    \/ BorrowBegins \/ LoginBegins
    \/ InitCooldownExpires \/ ListenerStops \/ ConnectionIsLost
    \/ \E s \in Source : DialogCachesExpire(s)

SessionFairness ==
    /\ WF_sessionVars(MonitorStep) /\ WF_sessionVars(SearchStep) /\ WF_sessionVars(LoginStep)
    /\ WF_sessionVars(InitCooldownExpires) /\ WF_sessionVars(ListenerStops)
    /\ \A s \in Source : WF_sessionVars(DialogCachesExpire(s))

SessionSpec == SessionInit /\ [][SessionNext]_sessionVars /\ SessionFairness

-----------------------------------------------------------------------------
(* Properties *)

\* However searches take the client into their loops, connections fail and loops
\* pass each other by at two locks: once they leave the client alone and it is
\* logged in, a connected client has a handler for every source.
ListeningIsRestored ==
    <>[]authorized => <>[](handler.on \in connected /\ handler.sources = Source)
=============================================================================
