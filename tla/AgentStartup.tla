---------------------------- MODULE AgentStartup ----------------------------
(***************************************************************************)
(* How the process of a Go agent comes up: the configuration, its identity *)
(* (agent/internal/agent/agent.go) and its registration                    *)
(* (agent/internal/registration/registration.go), until it enters the      *)
(* event loop.  What it learns on the way it keeps in five files.  A file  *)
(* is created, or truncated, before it is filled, and only whether it      *)
(* exists is looked at later; the process may die in between, and starts   *)
(* from the beginning then.                                                *)
(***************************************************************************)
EXTENDS Naturals

CONSTANTS
  MaxAttempts,  \* registrations tried before the process gives up (5)
  MaxMishaps    \* bound on what goes wrong: deaths of the process, changes of the configuration

ASSUME AttemptAssumption == MaxAttempts \in Nat \ {0}
ASSUME MishapAssumption == MaxMishaps \in Nat

VARIABLES
  at,        \* where the process is
  conf,      \* its configuration, read when it is launched
  me,        \* its uuid, in memory
  attempt,   \* registrations tried without success
  reply,     \* number of the registration it has received
  out,       \* the file it is writing
  disk,      \* the five files
  ids,       \* number of uuids generated
  approved,  \* an operator has approved the agent on the server
  issued,    \* number of registrations the server has made
  told,      \* history: the uuids the server has heard of
  mishaps

memory == <<conf, me, attempt, reply, out>>
server == <<approved, issued, told>>
startupVars == <<at, memory, disk, ids, server, mishaps>>

File == {"uuid", "ca", "token", "key", "cert"}

\* What a file holds: nothing that can be used, or what it is for and whose.
Absent == [is |-> "absent", of |-> 0]
Partial == [is |-> "partial", of |-> 0]   \* empty or cut short
Uuid(n) == [is |-> "uuid", of |-> n]
Token(u) == [is |-> "token", of |-> u.of]
DemoToken == [is |-> "demo", of |-> 0]
DummyCA == [is |-> "dummy", of |-> 0]
ServerCA == [is |-> "ca", of |-> 0]
Key(n) == [is |-> "key", of |-> n]
Cert(n) == [is |-> "cert", of |-> n]
Kind == {"absent", "partial", "uuid", "token", "demo", "dummy", "ca", "key", "cert"}
Content == [is : Kind, of : Nat]

\* The scheme of the server's URL, and whether a demo cookie is set.
Config == [tls : BOOLEAN, demo : BOOLEAN]

NoWrite == [file |-> "uuid", content |-> Absent, next |-> "down"]

Exists(f) == disk[f] # Absent

StartupInit ==
  /\ at = "down"
  /\ conf \in Config
  /\ me = Absent /\ attempt = 0 /\ reply = 0 /\ out = NoWrite
  /\ disk = [f \in File |-> Absent]
  /\ ids = 0
  /\ approved = FALSE /\ issued = 0 /\ told = {}
  /\ mishaps = 0

-----------------------------------------------------------------------------
(* os.WriteFile                                                            *)

BeginWrite(f, content, next) ==
  /\ disk' = [disk EXCEPT ![f] = Partial]
  /\ out' = [file |-> f, content |-> content, next |-> next]
  /\ at' = "write"

FinishWrite ==
  /\ at = "write"
  /\ disk' = [disk EXCEPT ![out.file] = out.content]
  /\ at' = out.next
  /\ out' = NoWrite
  /\ UNCHANGED <<conf, me, attempt, reply, ids, server, mishaps>>

Goto(next) == at' = next /\ UNCHANGED <<disk, out>>

-----------------------------------------------------------------------------
(* Launch and identity                                                     *)

\* The process ends; what it has in memory is gone.
Exit ==
  /\ at' = "down"
  /\ me' = Absent /\ attempt' = 0 /\ reply' = 0 /\ out' = NoWrite
  /\ UNCHANGED <<conf, disk, ids, approved, issued>>

Launch ==
  /\ at = "down"
  /\ at' = "identify"
  /\ UNCHANGED <<memory, disk, ids, server, mishaps>>

\* The environment variables are changed while the process is down.
Reconfigure ==
  /\ at = "down" /\ mishaps < MaxMishaps
  /\ mishaps' = mishaps + 1
  /\ conf' \in Config \ {conf}
  /\ UNCHANGED <<at, me, attempt, reply, out, disk, ids, server>>

LoadUuid ==
  /\ at = "identify" /\ Exists("uuid")
  /\ me' = disk["uuid"]
  /\ Goto("readCA")
  /\ UNCHANGED <<conf, attempt, reply, ids, server, mishaps>>

\* Mutant: the new uuid is not saved.
ForgetUuid ==
  /\ at = "identify" /\ ~ Exists("uuid")
  /\ ids' = ids + 1
  /\ me' = Uuid(ids + 1)
  /\ Goto("readCA")
  /\ UNCHANGED <<conf, attempt, reply, server, mishaps>>

GenerateUuid ==
  /\ at = "identify" /\ ~ Exists("uuid")
  /\ ids' = ids + 1
  /\ me' = Uuid(ids + 1)
  /\ BeginWrite("uuid", Uuid(ids + 1), "readCA")
  /\ UNCHANGED <<conf, attempt, reply, server, mishaps>>

-----------------------------------------------------------------------------
(* The server's certificate and the client that trusts it                  *)

KeepCA ==
  /\ at = "readCA" /\ Exists("ca")
  /\ Goto("trust")
  /\ UNCHANGED <<conf, me, attempt, reply, ids, server, mishaps>>

\* Mutant: the certificate is downloaded at every start.
AlwaysReadCA ==
  /\ at = "readCA"
  /\ BeginWrite("ca", IF conf.tls THEN ServerCA ELSE DummyCA, "trust")
  /\ UNCHANGED <<conf, me, attempt, reply, ids, server, mishaps>>

\* Downloaded, or a file without a certificate if the server is not asked for one.
ReadCA ==
  /\ at = "readCA" /\ ~ Exists("ca")
  /\ BeginWrite("ca", IF conf.tls THEN ServerCA ELSE DummyCA, "trust")
  /\ UNCHANGED <<conf, me, attempt, reply, ids, server, mishaps>>

Trusts == conf.tls => disk["ca"] = ServerCA

CreateClient ==
  /\ at = "trust" /\ Trusts
  /\ Goto("getToken")
  /\ UNCHANGED <<conf, me, attempt, reply, ids, server, mishaps>>

\* "failed to parse CA certificate"
NoCertificateInCA ==
  /\ at = "trust" /\ ~ Trusts
  /\ Exit
  /\ UNCHANGED <<told, mishaps>>

-----------------------------------------------------------------------------
(* The token                                                               *)

\* A demo cookie replaces whatever token there is.
UseDemoCookie ==
  /\ at = "getToken" /\ conf.demo
  /\ BeginWrite("token", DemoToken, "register")
  /\ UNCHANGED <<conf, me, attempt, reply, ids, server, mishaps>>

KeepToken ==
  /\ at = "getToken" /\ ~ conf.demo /\ Exists("token")
  /\ Goto("register")
  /\ UNCHANGED <<conf, me, attempt, reply, ids, server, mishaps>>

RequestToken ==
  /\ at = "getToken" /\ ~ conf.demo /\ ~ Exists("token")
  /\ told' = told \cup {me}
  /\ BeginWrite("token", Token(me), "register")
  /\ UNCHANGED <<conf, me, attempt, reply, ids, approved, issued, mishaps>>

-----------------------------------------------------------------------------
(* Registration                                                            *)

\* Mutant: one of the two files will do.
HasKeyOrCertificate == Exists("key") \/ Exists("cert")

HasCertificate == Exists("key") /\ Exists("cert")

\* The server takes its own token; what it thinks of half a token or half a
\* uuid is not known.
MayAccept == disk["token"] \in {DemoToken, Token(me), Partial}
MustAccept == disk["token"] \in {DemoToken, Token(me)} /\ me # Partial

\* The agent posts its data.
Post ==
  /\ at = "register"
  /\ conf.tls => ~ HasCertificate
  /\ told' = told \cup {me}

RegisterHTTP ==
  /\ ~ conf.tls
  /\ Post /\ MayAccept
  /\ Goto("secure")
  /\ UNCHANGED <<conf, me, attempt, reply, ids, approved, issued, mishaps>>

KeepCertificate ==
  /\ at = "register" /\ conf.tls /\ HasCertificate
  /\ Goto("secure")
  /\ UNCHANGED <<conf, me, attempt, reply, ids, server, mishaps>>

\* Mutant: a private key that exists is kept.
RegisterWithOldKey ==
  /\ conf.tls /\ approved
  /\ Post /\ MayAccept
  /\ issued' = issued + 1
  /\ reply' = issued + 1
  /\ IF Exists("key") THEN Goto("saveCert") ELSE BeginWrite("key", Key(issued + 1), "saveCert")
  /\ UNCHANGED <<conf, me, attempt, ids, approved, mishaps>>

\* An approved agent gets a key and a certificate.
RegisterHTTPS ==
  /\ conf.tls /\ approved
  /\ Post /\ MayAccept
  /\ issued' = issued + 1
  /\ reply' = issued + 1
  /\ BeginWrite("key", Key(issued + 1), "saveCert")
  /\ UNCHANGED <<conf, me, attempt, ids, approved, mishaps>>

SaveCertificate ==
  /\ at = "saveCert"
  /\ BeginWrite("cert", Cert(reply), "secure")
  /\ UNCHANGED <<conf, me, attempt, reply, ids, server, mishaps>>

\* Mutant: the attempts are not counted to an end.
RetryForever ==
  /\ conf.tls /\ ~ approved
  /\ Post /\ MayAccept
  /\ attempt' = attempt + 1
  /\ UNCHANGED <<at, conf, me, reply, out, disk, ids, approved, issued, mishaps>>

\* The answer is empty: try again after two, four, eight and sixteen seconds.
RegistrationPending ==
  /\ conf.tls /\ ~ approved
  /\ Post /\ MayAccept
  /\ attempt + 1 < MaxAttempts
  /\ attempt' = attempt + 1
  /\ UNCHANGED <<at, conf, me, reply, out, disk, ids, approved, issued, mishaps>>

GiveUp ==
  /\ conf.tls /\ ~ approved
  /\ Post /\ MayAccept
  /\ attempt + 1 = MaxAttempts
  /\ Exit
  /\ UNCHANGED mishaps

\* Any other status ends the process at once.
RegistrationRefused ==
  /\ ~ MustAccept
  /\ Post
  /\ Exit
  /\ UNCHANGED mishaps

-----------------------------------------------------------------------------
(* The TLS configuration of the WebSocket connection                       *)

Secure ==
  conf.tls =>
    /\ disk["ca"] = ServerCA
    /\ disk["cert"].is = "cert"
    /\ disk["key"] = Key(disk["cert"].of)

EnterLoop ==
  /\ at = "secure" /\ Secure
  /\ attempt' = 0 /\ reply' = 0
  /\ Goto("loop")
  /\ UNCHANGED <<conf, me, ids, server, mishaps>>

\* "failed to load client cert"
NoKeyPair ==
  /\ at = "secure" /\ ~ Secure
  /\ Exit
  /\ UNCHANGED <<told, mishaps>>

-----------------------------------------------------------------------------
(* Failures and the operator                                               *)

\* The process is killed, or a request or a write fails and it exits.
Die ==
  /\ at # "down" /\ mishaps < MaxMishaps
  /\ mishaps' = mishaps + 1
  /\ Exit
  /\ UNCHANGED told

Approve ==
  /\ ~ approved
  /\ approved' = TRUE
  /\ UNCHANGED <<at, memory, disk, ids, issued, told, mishaps>>

StartupStep ==
  \/ FinishWrite \/ Launch \/ LoadUuid \/ GenerateUuid
  \/ KeepCA \/ ReadCA \/ CreateClient \/ NoCertificateInCA
  \/ UseDemoCookie \/ KeepToken \/ RequestToken
  \/ RegisterHTTP \/ KeepCertificate \/ RegisterHTTPS \/ SaveCertificate
  \/ RegistrationPending \/ GiveUp \/ RegistrationRefused
  \/ EnterLoop \/ NoKeyPair

StartupNext == StartupStep \/ Reconfigure \/ Approve

StartupSpec == StartupInit /\ [][StartupNext \/ Die]_startupVars

-----------------------------------------------------------------------------
(* Properties                                                              *)

StartupTypeOK ==
  /\ at \in {"down", "identify", "readCA", "trust", "getToken", "register",
             "saveCert", "secure", "loop", "write"}
  /\ conf \in Config
  /\ me \in Content /\ attempt \in 0..(MaxAttempts - 1) /\ reply \in Nat
  /\ out \in [file : File, content : Content,
              next : {"down", "readCA", "trust", "register", "saveCert", "secure"}]
  /\ disk \in [File -> Content]
  /\ ids \in Nat /\ issued \in Nat /\ mishaps \in 0..MaxMishaps
  /\ approved \in BOOLEAN /\ told \in SUBSET Content

(***************************************************************************)
(* "UUID (persisted across restarts)": whatever the server has ever heard  *)
(* from this agent, it has heard under the uuid in the file, which is the  *)
(* one the token was issued for.                                           *)
(***************************************************************************)
OneIdentity ==
  /\ told \subseteq {disk["uuid"]}
  /\ disk["token"].is = "token" => disk["token"] = Token(disk["uuid"])

(***************************************************************************)
(* The private key and the certificate come from one registration, however *)
(* often the process died between the writing of the two.                  *)
(***************************************************************************)
KeyMatchesCertificate ==
  disk["cert"].is = "cert" => disk["key"] = Key(disk["cert"].of)

(***************************************************************************)
(* What one start has saved no later start spoils: only the token, while a *)
(* demo cookie is set, and a key without certificate are written again.    *)
(***************************************************************************)
SavedFilesSurvive ==
  [][\A f \in File :
       disk[f] \notin {Absent, Partial} =>
         \/ disk'[f] = disk[f]
         \/ f = "token" /\ conf.demo
         \/ f = "key" /\ disk["cert"] = Absent]_startupVars

(***************************************************************************)
(* "supervisor will restart": an agent that is down comes up again as soon *)
(* as it is approved, unless a file that no start replaces is not what the *)
(* configuration asks for: because the process died while writing it, or   *)
(* because the server moved from HTTP to HTTPS.                            *)
(***************************************************************************)
Spoilt ==
  \/ disk["uuid"] = Partial
  \/ disk["token"] = Partial /\ ~ conf.demo
  \/ conf.tls /\ (disk["ca"] \in {Partial, DummyCA} \/ disk["cert"] = Partial)

AwaitsApproval == conf.tls /\ ~ approved

ComesUp == at = "down" ~> (at = "loop" \/ AwaitsApproval \/ (at = "down" /\ Spoilt))
=============================================================================
