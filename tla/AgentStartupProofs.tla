------------------------- MODULE AgentStartupProofs -------------------------
(***************************************************************************)
(* However often the process of an agent dies, wherever that hits it, and  *)
(* whatever becomes of its configuration: it keeps one identity, its key   *)
(* belongs to its certificate, and no start spoils what an earlier one has *)
(* saved.  The invariant behind this says what each file holds while the   *)
(* process is at a place, and what is known of the file it is writing.     *)
(***************************************************************************)
EXTENDS AgentStartup, TLAPS

Writing(f) == at = "write" /\ out.file = f

\* From the moment the uuid is saved or loaded it is the one on disk.
Identified == at \notin {"down", "identify"} /\ ~ Writing("uuid")

IdentityInv ==
  /\ Identified => me = disk["uuid"] /\ me # Absent
  /\ disk["uuid"] = Absent \/ Writing("uuid") => told = {} /\ disk["token"].is # "token"
  /\ OneIdentity

WriteInv ==
  at = "write" =>
    /\ disk[out.file] = Partial
    /\ out.file = "uuid" => out.content = me /\ me.is = "uuid"
    /\ out.file = "ca" => out.content \in {ServerCA, DummyCA}
    /\ out.file = "token" => out.content \in {DemoToken, Token(me)}
    /\ out.file = "key" => out.content = Key(reply)
    /\ out.file = "cert" => out.content = Cert(reply)
    /\ out.next \notin {"down", "identify", "write"}
    /\ out.next = "saveCert" <=> out.file = "key"

CertificateInv ==
  /\ KeyMatchesCertificate
  /\ disk["cert"] # Absent => disk["key"] # Absent
  /\ at = "saveCert" \/ Writing("key") => disk["cert"] = Absent
  /\ at = "saveCert" \/ Writing("cert") => disk["key"] = Key(reply)

FilesInv == StartupTypeOK /\ IdentityInv /\ WriteInv /\ CertificateInv

-----------------------------------------------------------------------------
LEMMA ContentTypes ==
  /\ {Absent, Partial, DemoToken, DummyCA, ServerCA} \subseteq Content
  /\ \A n \in Nat : {Uuid(n), Key(n), Cert(n)} \subseteq Content
  /\ \A c \in Content : Token(c) \in Content
BY DEF Content, Kind, Absent, Partial, DemoToken, DummyCA, ServerCA, Uuid, Key, Cert, Token

LEMMA TypeStep ==
  ASSUME StartupTypeOK, StartupNext \/ Die
  PROVE  StartupTypeOK'
<1> USE ContentTypes, AttemptAssumption, MishapAssumption
      DEF StartupTypeOK, memory, server, File, Config, NoWrite
<1>1. CASE FinishWrite
  BY <1>1 DEF FinishWrite
<1>2. CASE Launch
  BY <1>2 DEF Launch
<1>3. CASE Reconfigure
  BY <1>3 DEF Reconfigure
<1>4. CASE LoadUuid
  BY <1>4 DEF LoadUuid, Goto, Exists
<1>5. CASE GenerateUuid
  BY <1>5 DEF GenerateUuid, BeginWrite, Exists
<1>6. CASE KeepCA
  BY <1>6 DEF KeepCA, Goto
<1>7. CASE ReadCA
  BY <1>7 DEF ReadCA, BeginWrite
<1>8. CASE CreateClient
  BY <1>8 DEF CreateClient, Goto
<1>9. CASE NoCertificateInCA
  BY <1>9 DEF NoCertificateInCA, Exit
<1>10. CASE UseDemoCookie
  BY <1>10 DEF UseDemoCookie, BeginWrite
<1>11. CASE KeepToken
  BY <1>11 DEF KeepToken, Goto
<1>12. CASE RequestToken
  BY <1>12 DEF RequestToken, BeginWrite
<1>13. CASE RegisterHTTP
  BY <1>13 DEF RegisterHTTP, Goto, Post
<1>14. CASE KeepCertificate
  BY <1>14 DEF KeepCertificate, Goto
<1>15. CASE RegisterHTTPS
  BY <1>15 DEF RegisterHTTPS, Post, MayAccept, HasCertificate, Exists, BeginWrite
<1>16. CASE SaveCertificate
  BY <1>16 DEF SaveCertificate, BeginWrite
<1>17. CASE RegistrationPending
  BY <1>17 DEF RegistrationPending, Post
<1>18. CASE GiveUp
  BY <1>18 DEF GiveUp, Exit, Post
<1>19. CASE RegistrationRefused
  BY <1>19 DEF RegistrationRefused, Exit, Post
<1>20. CASE EnterLoop
  BY <1>20 DEF EnterLoop, Goto
<1>21. CASE NoKeyPair
  BY <1>21 DEF NoKeyPair, Exit
<1>22. CASE Die
  BY <1>22 DEF Die, Exit
<1>23. CASE Approve
  BY <1>23 DEF Approve
<1> QED BY <1>1, <1>2, <1>3, <1>4, <1>5, <1>6, <1>7, <1>8, <1>9, <1>10, <1>11, <1>12,
           <1>13, <1>14, <1>15, <1>16, <1>17, <1>18, <1>19, <1>20, <1>21, <1>22, <1>23
        DEF StartupNext, StartupStep

LEMMA FilesStep ==
  ASSUME FilesInv, StartupNext \/ Die
  PROVE  FilesInv'
<1>0. StartupTypeOK'
  BY TypeStep DEF FilesInv
<1> USE <1>0 DEF FilesInv, StartupTypeOK, IdentityInv, WriteInv, CertificateInv, OneIdentity,
      KeyMatchesCertificate, Writing, Identified, memory, server, File,
      Absent, Partial, Uuid, Token, DemoToken, DummyCA, ServerCA, Key, Cert, NoWrite
<1>1. CASE FinishWrite
  BY <1>1 DEF FinishWrite
<1>2. CASE Launch
  BY <1>2 DEF Launch
<1>3. CASE Reconfigure
  BY <1>3 DEF Reconfigure
<1>4. CASE LoadUuid
  BY <1>4 DEF LoadUuid, Goto, Exists
<1>5. CASE GenerateUuid
  BY <1>5 DEF GenerateUuid, BeginWrite, Exists
<1>6. CASE KeepCA
  BY <1>6 DEF KeepCA, Goto
<1>7. CASE ReadCA
  BY <1>7 DEF ReadCA, BeginWrite
<1>8. CASE CreateClient
  BY <1>8 DEF CreateClient, Goto
<1>9. CASE NoCertificateInCA
  BY <1>9 DEF NoCertificateInCA, Exit
<1>10. CASE UseDemoCookie
  BY <1>10 DEF UseDemoCookie, BeginWrite
<1>11. CASE KeepToken
  BY <1>11 DEF KeepToken, Goto
<1>12. CASE RequestToken
  BY <1>12 DEF RequestToken, BeginWrite
<1>13. CASE RegisterHTTP
  BY <1>13 DEF RegisterHTTP, Goto, Post
<1>14. CASE KeepCertificate
  BY <1>14 DEF KeepCertificate, Goto
<1>15. CASE RegisterHTTPS
  BY <1>15 DEF RegisterHTTPS, Post, MayAccept, HasCertificate, Exists, BeginWrite
<1>16. CASE SaveCertificate
  BY <1>16 DEF SaveCertificate, BeginWrite
<1>17. CASE RegistrationPending
  BY <1>17 DEF RegistrationPending, Post
<1>18. CASE GiveUp
  BY <1>18 DEF GiveUp, Exit, Post
<1>19. CASE RegistrationRefused
  BY <1>19 DEF RegistrationRefused, Exit, Post
<1>20. CASE EnterLoop
  BY <1>20 DEF EnterLoop, Goto
<1>21. CASE NoKeyPair
  BY <1>21 DEF NoKeyPair, Exit
<1>22. CASE Die
  BY <1>22 DEF Die, Exit
<1>23. CASE Approve
  BY <1>23 DEF Approve
<1> QED BY <1>1, <1>2, <1>3, <1>4, <1>5, <1>6, <1>7, <1>8, <1>9, <1>10, <1>11, <1>12,
           <1>13, <1>14, <1>15, <1>16, <1>17, <1>18, <1>19, <1>20, <1>21, <1>22, <1>23
        DEF StartupNext, StartupStep

LEMMA FilesInvariant == StartupSpec => []FilesInv
<1>1. StartupInit => FilesInv
  <2> SUFFICES ASSUME StartupInit PROVE FilesInv
    OBVIOUS
  <2>1. disk \in [File -> Content] /\ \A f \in File : disk[f] = Absent
    BY ContentTypes DEF StartupInit
  <2>2. /\ 0 \in 0..(MaxAttempts - 1) /\ 0 \in 0..MaxMishaps
        /\ NoWrite \in [file : File, content : Content,
                        next : {"down", "readCA", "trust", "register", "saveCert", "secure"}]
    BY AttemptAssumption, MishapAssumption, ContentTypes DEF NoWrite, File
  <2>3. StartupTypeOK
    BY <2>1, <2>2, ContentTypes DEF StartupInit, StartupTypeOK
  <2>4. IdentityInv /\ WriteInv /\ CertificateInv
    BY <2>1 DEF StartupInit, IdentityInv, WriteInv, CertificateInv, OneIdentity,
                KeyMatchesCertificate, Writing, Identified, File, Absent
  <2> QED BY <2>3, <2>4 DEF FilesInv
<1>2. FilesInv /\ [StartupNext \/ Die]_startupVars => FilesInv'
  <2> SUFFICES ASSUME FilesInv, [StartupNext \/ Die]_startupVars PROVE FilesInv'
    OBVIOUS
  <2>1. CASE StartupNext \/ Die
    BY <2>1, FilesStep
  <2>2. CASE UNCHANGED startupVars
    BY <2>2 DEF FilesInv, StartupTypeOK, IdentityInv, WriteInv, CertificateInv, OneIdentity,
                KeyMatchesCertificate, Writing, Identified, startupVars, memory, server
  <2> QED BY <2>1, <2>2
<1> QED BY <1>1, <1>2, PTL DEF StartupSpec

\* What a step may write again.
Spares(f) ==
  disk[f] \notin {Absent, Partial} =>
    \/ disk'[f] = disk[f]
    \/ f = "token" /\ conf.demo
    \/ f = "key" /\ disk["cert"] = Absent

LEMMA StepSpares ==
  ASSUME FilesInv, StartupNext \/ Die, NEW f \in File
  PROVE  Spares(f)
<1> USE DEF FilesInv, StartupTypeOK, WriteInv, CertificateInv, Writing, Spares, memory, server, File
<1>1. CASE FinishWrite
  BY <1>1 DEF FinishWrite
<1>2. CASE GenerateUuid
  BY <1>2 DEF GenerateUuid, BeginWrite, Exists
<1>3. CASE ReadCA
  BY <1>3 DEF ReadCA, BeginWrite, Exists
<1>4. CASE UseDemoCookie
  BY <1>4 DEF UseDemoCookie, BeginWrite
<1>5. CASE RequestToken
  BY <1>5 DEF RequestToken, BeginWrite, Exists
<1>6. CASE RegisterHTTPS
  BY <1>6 DEF RegisterHTTPS, Post, HasCertificate, Exists, BeginWrite
<1>7. CASE SaveCertificate
  BY <1>7 DEF SaveCertificate, BeginWrite
<1>8. CASE UNCHANGED disk
  BY <1>8
<1> QED BY <1>1, <1>2, <1>3, <1>4, <1>5, <1>6, <1>7, <1>8
        DEF StartupNext, StartupStep, Goto, Exit,
            Launch, Reconfigure, LoadUuid, KeepCA, CreateClient, NoCertificateInCA, KeepToken,
            RegisterHTTP, KeepCertificate, RegistrationPending, GiveUp, RegistrationRefused,
            EnterLoop, NoKeyPair, Die, Approve

-----------------------------------------------------------------------------
(***************************************************************************)
(* The files, the memory of the process and what the server knows stay     *)
(* what they are declared to be.                                           *)
(***************************************************************************)
THEOREM StartupTypeCorrect == StartupSpec => []StartupTypeOK
BY FilesInvariant, PTL DEF FilesInv

(***************************************************************************)
(* The server hears of one uuid only, the saved one, and the token belongs *)
(* to it, for every number of deaths and changes of the configuration.     *)
(***************************************************************************)
THEOREM IdentityKept == StartupSpec => []OneIdentity
<1>1. FilesInv => OneIdentity
  BY DEF FilesInv, IdentityInv
<1> QED BY <1>1, FilesInvariant, PTL

(***************************************************************************)
(* Key and certificate come from one registration, for every number of     *)
(* deaths between the two writes.                                          *)
(***************************************************************************)
THEOREM KeyPairKept == StartupSpec => []KeyMatchesCertificate
<1>1. FilesInv => KeyMatchesCertificate
  BY DEF FilesInv, CertificateInv
<1> QED BY <1>1, FilesInvariant, PTL

(***************************************************************************)
(* No start spoils what an earlier one has saved.                          *)
(***************************************************************************)
THEOREM FilesSpared == StartupSpec => SavedFilesSurvive
<1>1. FilesInv /\ [StartupNext \/ Die]_startupVars
        => [\A f \in File :
              disk[f] \notin {Absent, Partial} =>
                \/ disk'[f] = disk[f]
                \/ f = "token" /\ conf.demo
                \/ f = "key" /\ disk["cert"] = Absent]_startupVars
  BY StepSpares DEF Spares
<1> QED BY <1>1, FilesInvariant, PTL DEF StartupSpec, SavedFilesSurvive
=============================================================================
