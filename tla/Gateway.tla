------------------------------ MODULE Gateway ------------------------------
(***************************************************************************)
(* swmgr gateway (pyhostprep/gateway.py): `configure` writes the files of  *)
(* Sync Gateway one after the other, a private key, a certificate made     *)
(* from the key on disk, and the configuration; with -f it writes the      *)
(* configuration elsewhere, but the other two in their place.  `wait`      *)
(* polls the port of the gateway.  A run can stop at any point, and the    *)
(* gateway restarts when it pleases.                                       *)
(***************************************************************************)
EXTENDS Integers

CONSTANTS
    Servers,     \* what the options name: the first address of --ip-list
    None,
    Torn,        \* the content of a file whose writer stopped
    Total,       \* of urllib3's Retry in the session that polls
    PollRetries, \* of gateway_wait
    Sleepable,   \* the delays before a retry, doubled each time, of which
                 \* time.sleep takes only so many
    MaxRuns      \* bound: runs of swmgr

ASSUME BoundsAssumption == /\ Total \in Nat /\ PollRetries \in Nat
                           /\ Sleepable \in Nat /\ MaxRuns \in Nat

Ids == 1..MaxRuns

\* The options of a run.  elsewhere: --filename is given.
Options == [server : Servers, tls : BOOLEAN, elsewhere : BOOLEAN]

ASSUME NoneAssumption ==
    None \notin Ids \cup Options \cup {Torn, "root", "given"}
ASSUME TornAssumption == Torn \notin Ids \cup Options

VARIABLES
    logs,    \* the directory of the logs: None, "root" as mkdir leaves it,
             \* "given" to the user of the gateway
    key,     \* privkey.pem: the run that made it
    cert,    \* cert.pem: the run that made the key it belongs to
    config,  \* sync_gateway.json: the options of its run
    perms,   \* whether the user of the gateway owns it
    serving, \* what the gateway was started with, None while it is down
    pc, options, \* the run under way, and its options
    polls, tries, \* of wait: requests of the loop, connections of a request
    outcome, \* of the last run
    wanted,  \* history: the options of the last configure that succeeded in
             \* place
    stopped, \* history: whether a run stopped half way since then
    runs

files == <<logs, key, cert, config, perms>>
vars == <<logs, key, cert, config, perms, serving, pc, options, polls, tries,
          outcome, wanted, stopped, runs>>

TypeOK ==
    /\ logs \in {None, "root", "given"}
    /\ key \in Ids \cup {None, Torn}
    /\ cert \in Ids \cup {None, Torn}
    /\ config \in Options \cup {None, Torn}
    /\ perms \in BOOLEAN
    /\ serving \in Options \cup {None}
    /\ pc \in {"idle", "mkdir", "chown", "key", "cert", "config", "perms", "poll"}
    /\ options \in Options \cup {None}
    /\ polls \in 0..PollRetries /\ polls <= Sleepable /\ tries \in 0..Total
    /\ outcome \in {None, "done", "stopped", "answered", "gave_up", "overflow"}
    /\ wanted \in Options \cup {None}
    /\ stopped \in BOOLEAN
    /\ runs \in 0..MaxRuns

\* The package is installed: the directory of the gateway is there.
Init ==
    /\ logs = None /\ key = None /\ cert = None /\ config = None
    /\ perms = FALSE /\ serving = None
    /\ pc = "idle" /\ options = None
    /\ polls = 0 /\ tries = 0
    /\ outcome = None /\ wanted = None /\ stopped = FALSE
    /\ runs = 0

-----------------------------------------------------------------------------
(* configure.                                                              *)

\* prepare, from the files on.
FirstFile(o) == IF o.tls THEN "key" ELSE "config"

Begin(o, label) ==
    /\ pc = "idle" /\ runs < MaxRuns
    /\ runs' = runs + 1
    /\ options' = o
    /\ pc' = label
    /\ polls' = 0 /\ tries' = 0
    /\ outcome' = None
    /\ UNCHANGED <<files, serving, wanted, stopped>>

Configure(o) ==
    Begin(o, IF o.elsewhere \/ logs # None THEN FirstFile(o) ELSE "mkdir")

\* A step of configure that ends where it should.
Goto(label) ==
    /\ pc' = label
    /\ UNCHANGED <<serving, options, polls, tries, outcome, wanted, stopped, runs>>

\* Ctrl-C, or an exception: nothing catches one.
Stop ==
    /\ pc' = "idle"
    /\ outcome' = "stopped"
    /\ stopped' = TRUE
    /\ UNCHANGED <<serving, options, polls, tries, wanted, runs>>

MakeDir ==
    /\ pc = "mkdir"
    /\ \/ logs' = "root" /\ Goto("chown")
       \/ UNCHANGED logs /\ Stop
    /\ UNCHANGED <<key, cert, config, perms>>

ChownDir ==
    /\ pc = "chown"
    /\ \/ logs' = "given" /\ Goto(FirstFile(options))
       \/ UNCHANGED logs /\ Stop
    /\ UNCHANGED <<key, cert, config, perms>>

\* open() with "w" empties a file; what stops after that leaves it torn.
PrivateKey ==
    /\ pc = "key"
    /\ \/ key' = runs /\ Goto("cert")
       \/ key' \in {key, Torn} /\ Stop
    /\ UNCHANGED <<logs, cert, config, perms>>

\* Faulty variant: a certificate that is there is left alone.
CertificateBasic_Once ==
    /\ pc = "cert"
    /\ \/ cert' = (IF cert = None THEN key ELSE cert) /\ Goto("config")
       \/ cert' \in {cert, Torn} /\ Stop
    /\ UNCHANGED <<logs, key, config, perms>>

\* certificate_basic loads the key from its file.
CertificateBasic ==
    /\ pc = "cert"
    /\ \/ key \in Ids /\ cert' = key /\ Goto("config")
       \/ cert' \in {cert, Torn} /\ Stop
    /\ UNCHANGED <<logs, key, config, perms>>

CopyConfig ==
    /\ pc = "config"
    /\ \/ /\ IF options.elsewhere THEN UNCHANGED config ELSE config' = options
          /\ Goto("perms")
       \/ /\ IF options.elsewhere THEN UNCHANGED config
             ELSE config' \in {config, Torn}
          /\ Stop
    /\ UNCHANGED <<logs, key, cert, perms>>

\* History: only what is written in place is configured.
Finished == IF options.elsewhere THEN UNCHANGED <<wanted, stopped>>
            ELSE wanted' = options /\ stopped' = FALSE

\* set_perms, the last step.
SetPerms ==
    /\ pc = "perms"
    /\ \/ /\ perms' = (perms \/ ~options.elsewhere)
          /\ pc' = "idle"
          /\ outcome' = "done"
          /\ Finished
          /\ UNCHANGED <<serving, options, polls, tries, runs>>
       \/ UNCHANGED perms /\ Stop
    /\ UNCHANGED <<logs, key, cert, config>>

-----------------------------------------------------------------------------
(* wait.                                                                   *)

GatewayWait(o) == Begin(o, "poll")

EndWait(how) ==
    /\ pc' = "idle" /\ outcome' = how
    /\ UNCHANGED <<polls, tries>>

\* Faulty variant: `if not result` without a look at the number.
NextPoll_Forever ==
    /\ tries' = 0
    /\ UNCHANGED <<polls, pc, outcome>>

\* After an exception, or an answer of something that is no gateway.  A delay
\* that is too long for time.sleep is an OverflowError that nothing catches.
NextPoll ==
    IF polls = PollRetries THEN EndWait("gave_up")
    ELSE IF polls = Sleepable THEN EndWait("overflow")
    ELSE /\ polls' = polls + 1 /\ tries' = 0
         /\ UNCHANGED <<pc, outcome>>

\* Faulty variant: the number is looked at after the attempt.
Reconnect_Late ==
    IF tries > Total THEN NextPoll
    ELSE tries' = tries + 1 /\ UNCHANGED <<polls, pc, outcome>>

\* Where there is no answer the adapter of the session connects again.
Reconnect ==
    IF tries = Total THEN NextPoll
    ELSE tries' = tries + 1 /\ UNCHANGED <<polls, pc, outcome>>

Speaks(o) == serving # None /\ serving.tls = o.tls

\* One connection of one request.  An answer with an error ends the request;
\* there is none where the gateway does not listen, or hangs up because it
\* does not speak the protocol.
Poll ==
    /\ pc = "poll"
    /\ \/ Speaks(options) /\ EndWait("answered")
       \/ serving # None /\ NextPoll
       \/ ~Speaks(options) /\ Reconnect
    /\ UNCHANGED <<files, serving, options, wanted, stopped, runs>>

\* Ctrl-C: a wait changes nothing.
BreakWait ==
    /\ pc = "poll"
    /\ EndWait("stopped")
    /\ UNCHANGED <<files, serving, options, wanted, stopped, runs>>

-----------------------------------------------------------------------------
(* The gateway (external).                                                 *)

PairOnDisk == key \in Ids /\ cert = key

\* What it needs to start.
Startable == /\ config \in Options
             /\ config.tls => PairOnDisk
             /\ perms /\ logs = "given"

\* StartSGW, a restart of the host or of the service, a crash.
Restart ==
    /\ serving' = IF Startable THEN config ELSE None
    /\ UNCHANGED <<files, pc, options, polls, tries, outcome, wanted, stopped, runs>>

Crash ==
    /\ serving # None
    /\ serving' = None
    /\ UNCHANGED <<files, pc, options, polls, tries, outcome, wanted, stopped, runs>>

Run == MakeDir \/ ChownDir \/ PrivateKey \/ CertificateBasic \/ CopyConfig
         \/ SetPerms \/ Poll

Next == \/ \E o \in Options : Configure(o) \/ GatewayWait(o)
        \/ Run \/ BreakWait \/ Restart \/ Crash

Spec == Init /\ [][Next]_vars

\* A run that was started is scheduled, and its requests have a timeout.
FairSpec == Spec /\ WF_vars(Run)

-----------------------------------------------------------------------------
(* Properties.                                                             *)

\* From the end of a configure that succeeded on, and until a run stops half
\* way again, the gateway finds in its directory what that run was asked for:
\* its configuration, and with TLS a certificate that belongs to the key.
\* Whatever runs stopped before it is made good, and runs with -f between
\* them, which replace the key and the certificate, change nothing of it.
ConfiguredOnDisk ==
    wanted # None /\ ~stopped /\ pc \in {"idle", "poll"} =>
       /\ config = wanted /\ perms
       /\ wanted.tls => PairOnDisk

\* Every run ends; a wait does although its two loops of retries are nested
\* and the gateway may come and go between the requests.
RunEnds == pc # "idle" ~> pc = "idle"
=============================================================================
