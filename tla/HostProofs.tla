------------------------------ MODULE HostProofs ------------------------------
(***************************************************************************)
(* What holds of the machine whatever addresses it has, however often the  *)
(* bridge is asked, and wherever it is stopped; of the statistics of the   *)
(* link, however many pages play and packets go astray; of the bodies that *)
(* cross it, wherever they are cut off; and of the bytes between the       *)
(* bridge and the driver, wherever reads end and writes stop.              *)
(*                                                                         *)
(* The three properties of the machine say what is so when a task has come *)
(* to its end.  What makes each of them inductive is what the task has     *)
(* done of it at each of its steps, while MIDIServer starts and idles      *)
(* between them.  What is counted as lost is right by what was heard: the  *)
(* last packet that counted is one of them, and none came after it.  What  *)
(* is read of a roster follows from where each of its devices is in its    *)
(* body: the reader has come to where the writer was when it began the     *)
(* next one, or has nothing left.                                          *)
(*                                                                         *)
(* Of the bytes, what an end has read and not consumed yet, and what is on *)
(* the way to it, are whole frames on end, and those of them it acts on    *)
(* are the ones it is owed.  Of a song, the decoder has the packets the    *)
(* DAW has sent, as long as they fit.                                      *)
(***************************************************************************)
EXTENDS SetupProps, WireProps, FramingProps, FiniteSetTheorems, SequenceTheorems, WellFoundedInduction, TLAPS

Ops == {"none", "install", "install-everywhere", "uninstall", "certify"}
Tasks ==
    [op : {"none"}, at : {0}] \cup [op : {"install", "uninstall"}, at : 1..4]
    \cup [op : {"install-everywhere"}, at : {1}] \cup [op : {"certify"}, at : 1..3, for : SUBSET Addresses]

DriverTypes == copies \in [Scopes -> {"none", "part", "whole"}] /\ server \in {"off", "with", "without"} /\ listed \subseteq Published
LoginTypes == service \in {"off", "on", "approval"} /\ plist \in BOOLEAN /\ marker \in BOOLEAN
FilesTypes ==
    files \in [cert : Nat, covers : SUBSET Wanted(Addresses), key : Nat, names : SUBSET Wanted(Addresses)]
HistoryTypes == {refused, lapsed, torn} \subseteq BOOLEAN /\ asks \subseteq Wanted(Addresses)

\* Everything the set-up keeps has its type, and nothing is told of a task that goes on.
Types ==
    /\ DriverTypes /\ LoginTypes /\ FilesTypes /\ HistoryTypes
    /\ task \in Tasks /\ acts \in Nat
    /\ task # Idle => told = "nothing"

\* uninstallDriver() has cleared one folder at its second step and both from its third on, so that a server
\* that starts from then on lists nothing.
UninstallInv ==
    /\ task.op = "uninstall" /\ task.at >= 2 => copies["user"] = "none"
    /\ task.op = "uninstall" /\ task.at >= 3 => copies["system"] = "none"
    /\ Removed => copies["user"] = "none" /\ copies["system"] = "none"
    /\ Removed /\ ~refused => listed = {}

\* What was switched off was off in both places, and the first launch had been recorded.
LoginInv == choice = "off-at-login" /\ ~lapsed => marker /\ service = "off" /\ ~plist

\* Between tasks the three files are of one certificate; while they are written, the first ones are.
CertificateInv ==
    ~torn =>
        /\ task.op # "certify" => files.cert = files.key /\ files.names = files.covers
        /\ task.op = "certify" => asks = Wanted(task.for)
        /\ task.op = "certify" /\ task.at >= 2 => files.cert = acts /\ files.covers = asks
        /\ task.op = "certify" /\ task.at >= 3 => files.key = acts
        /\ told = "certified" => asks \subseteq files.covers

IInv == Types /\ UninstallInv /\ LoginInv /\ CertificateInv
-----------------------------------------------------------------------------
(* The task.                                                               *)

\* What a task is, by what it is about.
LEMMA TaskFacts ==
    ASSUME task \in Tasks
    PROVE  /\ task.op \in Ops /\ task.at \in Nat
           /\ task.op = "none" <=> task = Idle
           /\ task.op \in {"install", "uninstall"} => task.at \in 1..4
           /\ task.op = "install-everywhere" => task.at = 1
           /\ task.op = "certify" => task.at \in 1..3 /\ task.for \in SUBSET Addresses
<1>1. CASE task \in [op : {"none"}, at : {0}]
  BY <1>1 DEF Ops, Idle
<1>2. CASE task \in [op : {"install", "uninstall"}, at : 1..4]
  BY <1>2 DEF Ops, Idle
<1>3. CASE task \in [op : {"install-everywhere"}, at : {1}]
  BY <1>3 DEF Ops, Idle
<1>4. CASE task \in [op : {"certify"}, at : 1..3, for : SUBSET Addresses]
  BY <1>4 DEF Ops, Idle
<1>. QED BY <1>1, <1>2, <1>3, <1>4 DEF Tasks

\* A step of an installation or of a removal, but for the last, leads to its next.
LEMMA DriverTaskGoesOn ==
    ASSUME task \in Tasks, task.op \in {"install", "uninstall"}, task.at < 4, GoesOn
    PROVE  task' \in Tasks /\ task'.op = task.op /\ task'.at = task.at + 1 /\ told' = told
<1>1. task \in [op : {"install", "uninstall"}, at : 1..4]
  BY DEF Tasks
<1>2. task' = [task EXCEPT !.at = @ + 1] /\ told' = told
  BY DEF GoesOn
<1>3. task' \in [op : {"install", "uninstall"}, at : 1..4] /\ task'.op = task.op /\ task'.at = task.at + 1
  BY <1>1, <1>2
<1>. QED BY <1>2, <1>3 DEF Tasks

\* The same of a certificate, which keeps its addresses.
LEMMA CertifyGoesOn ==
    ASSUME task \in Tasks, task.op = "certify", task.at < 3, GoesOn
    PROVE  /\ task' \in Tasks /\ task'.op = "certify" /\ task'.at = task.at + 1
           /\ task'.for = task.for /\ told' = told
<1>1. task \in [op : {"certify"}, at : 1..3, for : SUBSET Addresses]
  BY DEF Tasks
<1>2. task' = [task EXCEPT !.at = @ + 1] /\ told' = told
  BY DEF GoesOn
<1>3. /\ task' \in [op : {"certify"}, at : 1..3, for : SUBSET Addresses]
      /\ task'.op = "certify" /\ task'.at = task.at + 1 /\ task'.for = task.for
  BY <1>1, <1>2
<1>. QED BY <1>2, <1>3 DEF Tasks

LEMMA TaskEnds == ASSUME NEW to, Comes(to) PROVE task' \in Tasks /\ task' = Idle /\ task'.op = "none" /\ told' = to
  BY DEF Comes, Tasks, Idle

LEMMA TaskBegins ==
    ASSUME NEW op \in {"install", "install-everywhere", "uninstall"}
    PROVE  Task(op) \in Tasks /\ Task(op).op = op /\ Task(op).at = 1
<1>1. Task(op) = [op |-> op, at |-> 1]
  BY DEF Task
<1>2. CASE op \in {"install", "uninstall"}
  <2>1. Task(op) \in [op : {"install", "uninstall"}, at : 1..4]
    BY <1>1, <1>2
  <2>. QED BY <1>1, <2>1 DEF Tasks
<1>3. CASE op = "install-everywhere"
  <2>1. Task(op) \in [op : {"install-everywhere"}, at : {1}]
    BY <1>1, <1>3
  <2>. QED BY <1>1, <2>1 DEF Tasks
<1>. QED BY <1>2, <1>3
-----------------------------------------------------------------------------
(* The driver.                                                             *)

LEMMA InitInv == PropsInit => IInv
<1> SUFFICES ASSUME PropsInit PROVE IInv
  OBVIOUS
<1> USE DEF PropsInit, Init
<1>1. task \in Tasks /\ task.op = "none"
  BY DEF Tasks, Idle
<1>2. Types
  BY <1>1 DEF Types, DriverTypes, LoginTypes, FilesTypes, HistoryTypes, Scopes, NoFile
<1>3. UninstallInv
  BY <1>1 DEF UninstallInv, Removed
<1>4. LoginInv
  BY DEF LoginInv
<1>5. CertificateInv
  BY <1>1 DEF CertificateInv
<1>. QED BY <1>2, <1>3, <1>4, <1>5 DEF IInv

\* A step of the installation for this user clears nothing that a removal has told of: it is one task, and
\* a removal another.
LEMMA InstallUserKeeps == ASSUME IInv, InstallUser, UNCHANGED historyVars PROVE IInv'
<1> USE DEF IInv
<1>1. /\ task.op = "install" /\ task # Idle /\ told = "nothing"
      /\ ~torn => files.cert = files.key /\ files.names = files.covers
  BY TaskFacts DEF InstallUser, Types, Idle, CertificateInv
<1>2. /\ UNCHANGED <<loginVars, files, acts, historyVars>>
      /\ \/ task.at < 4 /\ GoesOn
         \/ \E to \in {"failed", "installed-for-the-user"} : Comes(to)
  BY DEF InstallUser, Types
<1>3. /\ task' \in Tasks /\ task'.op \in {"none", "install"}
      /\ task' # Idle => told' = "nothing"
      /\ told' \in {"nothing", "failed", "installed-for-the-user"}
  <2>1. CASE task.at < 4 /\ GoesOn
    BY <1>1, <2>1, DriverTaskGoesOn DEF Types
  <2>2. CASE \E to \in {"failed", "installed-for-the-user"} : Comes(to)
    BY <2>2, TaskEnds
  <2>. QED BY <1>2, <2>1, <2>2
<1>4. DriverTypes'
  BY DEF InstallUser, Types, DriverTypes, driverVars, Reload, Scopes
<1>5. Types'
  BY <1>2, <1>3, <1>4 DEF Types, LoginTypes, FilesTypes, HistoryTypes, loginVars, historyVars, Wanted
<1>6. UninstallInv'
  BY <1>3 DEF UninstallInv, Removed
<1>7. LoginInv'
  BY <1>2 DEF LoginInv, loginVars, historyVars
<1>8. CertificateInv'
  BY <1>1, <1>2, <1>3 DEF CertificateInv, historyVars
<1>. QED BY <1>5, <1>6, <1>7, <1>8

LEMMA InstallSystemKeeps == ASSUME IInv, InstallSystem, UNCHANGED historyVars PROVE IInv'
<1> USE DEF IInv
<1>1. /\ task.op = "install-everywhere"
      /\ ~torn => files.cert = files.key /\ files.names = files.covers
  BY DEF CertificateInv, InstallSystem
<1>2. UNCHANGED <<loginVars, files, acts, historyVars>> /\ \E to \in {"failed", "installed-for-everyone"} : Comes(to)
  BY DEF InstallSystem
<1>3. /\ task' \in Tasks /\ task'.op = "none" /\ task' = Idle
      /\ told' \in {"failed", "installed-for-everyone"}
  BY <1>2, TaskEnds
<1>4. DriverTypes'
  BY DEF InstallSystem, Types, DriverTypes, driverVars, Reload, Script, Scopes
<1>5. Types'
  BY <1>2, <1>3, <1>4 DEF Types, LoginTypes, FilesTypes, HistoryTypes, loginVars, historyVars, Wanted
<1>6. UninstallInv'
  BY <1>3 DEF UninstallInv, Removed
<1>7. LoginInv'
  BY <1>2 DEF LoginInv, loginVars, historyVars
<1>8. CertificateInv'
  BY <1>1, <1>2, <1>3 DEF CertificateInv, historyVars, InstallSystem
<1>. QED BY <1>5, <1>6, <1>7, <1>8

\* A removal: what a step has cleared stays so at the next, and the last leaves a device only where CoreMIDI
\* refused.
LEMMA UninstallKeeps ==
    ASSUME IInv, Uninstall, refused' = (task.at = 4 /\ listed' # {}), UNCHANGED <<choice, lapsed, asks, torn>>
    PROVE  IInv'
<1> USE DEF IInv
<1>1. /\ task \in Tasks /\ task.op = "uninstall" /\ task # Idle /\ told = "nothing" /\ task.at \in 1..4
      /\ ~torn => files.cert = files.key /\ files.names = files.covers
  BY TaskFacts DEF Uninstall, Types, Idle, CertificateInv
<1>2. /\ UNCHANGED <<loginVars, files, acts, choice, lapsed, asks, torn>>
      /\ \/ task.at < 4 /\ GoesOn
         \/ \E to \in {"failed", "removed", "nothing-left", "removed-but-the-devices"} : Comes(to)
  BY DEF Uninstall, RemoveDriverDevices
<1>3. /\ task' \in Tasks
      /\ \/ task'.op = "uninstall" /\ task'.at = task.at + 1 /\ told' = "nothing"
         \/ /\ task'.op = "none" /\ task' = Idle
            /\ told' \in {"failed", "removed", "nothing-left", "removed-but-the-devices"}
  BY <1>1, <1>2, DriverTaskGoesOn, TaskEnds
<1>4. DriverTypes'
  BY DEF Uninstall, RemoveDriverDevices, Types, DriverTypes, driverVars, Reload, Scopes
<1>5. Types'
  BY <1>2, <1>3, <1>4 DEF Types, LoginTypes, FilesTypes, HistoryTypes, loginVars, Wanted
<1>6. UninstallInv'
  <2>1. CASE task.at = 4
    <3>1. copies["user"] = "none" /\ copies["system"] = "none" /\ copies' = copies
      BY <1>1, <2>1 DEF Uninstall, UninstallInv
    <3>2. PICK to : Comes(to)
      BY <1>1, <2>1 DEF Uninstall, RemoveDriverDevices
    <3>3. task'.op = "none" /\ (~refused' => listed' = {})
      BY <2>1, <3>2, TaskEnds
    <3>. QED BY <3>1, <3>3 DEF UninstallInv, Removed
  <2>2. CASE task.at = 3
    BY <1>1, <1>3, <2>2 DEF Uninstall, UninstallInv, Removed, GoesOn
  <2>3. CASE task.at = 2
    <3>1. /\ copies["user"] = "none" /\ copies'["user"] = "none"
          /\ task'.op = "uninstall" => copies'["system"] = "none" /\ task'.at = 3
      BY <1>1, <1>3, <2>3, TaskEnds DEF Uninstall, UninstallInv, Types, DriverTypes, Scopes
    <3>2. told' \in {"nothing", "failed"}
      BY <1>1, <2>3 DEF Uninstall, GoesOn, Comes
    <3>. QED BY <3>1, <3>2 DEF UninstallInv, Removed
  <2>4. CASE task.at = 1
    <3>1. task'.op = "uninstall" => copies'["user"] = "none" /\ task'.at = 2
      BY <1>1, <1>3, <2>4, TaskEnds DEF Uninstall, Types, DriverTypes, Scopes
    <3>2. told' \in {"nothing", "failed"}
      BY <1>1, <2>4 DEF Uninstall, GoesOn, Comes
    <3>. QED BY <3>1, <3>2 DEF UninstallInv, Removed
  <2>. QED BY <1>1, <2>1, <2>2, <2>3, <2>4
<1>7. LoginInv'
  BY <1>2 DEF LoginInv, loginVars
<1>8. CertificateInv'
  BY <1>1, <1>2, <1>3 DEF CertificateInv
<1>. QED BY <1>5, <1>6, <1>7, <1>8

LEMMA AskDriverKeeps ==
    ASSUME NEW what \in {"install", "install-everywhere", "uninstall"}, IInv, AskDriver(what), UNCHANGED historyVars
    PROVE  IInv'
<1> USE DEF IInv
<1>1. /\ task.op = "none" /\ acts' = acts + 1 /\ task' = Task(what) /\ told' = "nothing"
      /\ UNCHANGED <<driverVars, loginVars, files, historyVars>>
  BY DEF AskDriver, Asked, Idle
<1>2. task' \in Tasks /\ task'.op = what /\ task'.at = 1
  BY <1>1, TaskBegins
<1>3. Types'
  BY <1>1, <1>2 DEF Types, DriverTypes, LoginTypes, FilesTypes, HistoryTypes, driverVars, loginVars, historyVars, Wanted
<1>4. UninstallInv'
  BY <1>1, <1>2 DEF UninstallInv, Removed
<1>5. LoginInv'
  BY <1>1 DEF LoginInv, loginVars, historyVars
<1>6. CertificateInv'
  BY <1>1, <1>2 DEF CertificateInv, historyVars
<1>. QED BY <1>3, <1>4, <1>5, <1>6

\* A server that starts lists devices only where a whole copy is left, which is nowhere once a removal was told.
LEMMA ServerStartsKeeps == ASSUME IInv, ServerStarts, UNCHANGED historyVars PROVE IInv'
<1> USE DEF IInv
<1>1. UNCHANGED <<copies, loginVars, task, told, files, acts, historyVars>>
  BY DEF ServerStarts
<1>2. /\ server' \in {"with", "without"} /\ listed' \in {listed, Published}
      /\ copies["user"] = "none" /\ copies["system"] = "none" => listed' = listed
  BY DEF ServerStarts, Scopes
<1>3. Types'
  BY <1>1, <1>2 DEF Types, DriverTypes, LoginTypes, FilesTypes, HistoryTypes, loginVars, historyVars, Wanted
<1>4. UninstallInv'
  BY <1>1, <1>2 DEF UninstallInv, Removed, historyVars
<1>5. LoginInv'
  BY <1>1 DEF LoginInv, loginVars, historyVars
<1>6. CertificateInv'
  BY <1>1 DEF CertificateInv, historyVars
<1>. QED BY <1>3, <1>4, <1>5, <1>6

LEMMA ServerIdlesKeeps == ASSUME IInv, ServerIdles, UNCHANGED historyVars PROVE IInv'
<1> USE DEF IInv
<1>1. server' = "off" /\ UNCHANGED <<copies, listed, loginVars, task, told, files, acts, historyVars>>
  BY DEF ServerIdles, Reload
<1>2. Types'
  BY <1>1 DEF Types, DriverTypes, LoginTypes, FilesTypes, HistoryTypes, loginVars, historyVars, Wanted
<1>3. UninstallInv'
  BY <1>1 DEF UninstallInv, Removed, historyVars
<1>4. LoginInv'
  BY <1>1 DEF LoginInv, loginVars, historyVars
<1>5. CertificateInv'
  BY <1>1 DEF CertificateInv, historyVars
<1>. QED BY <1>2, <1>3, <1>4, <1>5
-----------------------------------------------------------------------------
(* The login item.                                                         *)

\* Whatever the helper answers, the service and the file stay what they may be.
LEMMA LoginItemTypes ==
    ASSUME LoginTypes, EnableAutostart \/ DisableAutostart
    PROVE  service' \in {"off", "on", "approval"} /\ plist' \in BOOLEAN
<1>1. \A verb \in {"enable", "disable"} : \A r \in LoginItem(verb) : r.service \in {"off", "on", "approval"}
  BY DEF LoginItem, LoginTypes
<1>2. CASE EnableAutostart
  BY <1>1, <1>2 DEF EnableAutostart, LoginTypes
<1>3. CASE DisableAutostart
  BY <1>1, <1>3 DEF DisableAutostart, LoginTypes
<1>. QED BY <1>2, <1>3

\* What is toggled to "off" is off, or has lapsed.
LEMMA ToggleKeeps == ASSUME IInv, Toggle, Toggled, UNCHANGED <<refused, asks, torn>> PROVE IInv'
<1> USE DEF IInv
<1>1. /\ task = Idle /\ task.op = "none" /\ acts' = acts + 1 /\ told' \in {"on-at-login", "off-at-login"}
      /\ UNCHANGED <<driverVars, marker, files, task, refused, asks, torn>>
      /\ EnableAutostart \/ DisableAutostart
  BY DEF Toggle, Asked, Idle
<1>2. service' \in {"off", "on", "approval"} /\ plist' \in BOOLEAN
  BY <1>1, LoginItemTypes DEF Types
<1>3. lapsed' \in BOOLEAN
  BY DEF Toggled
<1>4. Types'
  BY <1>1, <1>2, <1>3 DEF Types, DriverTypes, LoginTypes, FilesTypes, HistoryTypes, driverVars, Wanted
<1>5. UninstallInv'
  BY <1>1 DEF UninstallInv, Removed
<1>6. LoginInv'
  BY <1>1, <1>2 DEF LoginInv, Toggled
<1>7. CertificateInv'
  BY <1>1 DEF CertificateInv
<1>. QED BY <1>4, <1>5, <1>6, <1>7

LEMMA SettingsKeeps == ASSUME IInv, Settings, UNCHANGED historyVars PROVE IInv'
<1> USE DEF IInv
<1>1. /\ service # "off" /\ service' \in {"on", "approval"} /\ acts' = acts + 1 /\ task.op = "none"
      /\ UNCHANGED <<driverVars, plist, marker, task, told, files, historyVars>>
  BY DEF Settings, Asked, Idle
<1>2. Types'
  BY <1>1 DEF Types, DriverTypes, LoginTypes, FilesTypes, HistoryTypes, driverVars, historyVars, Wanted
<1>3. UninstallInv'
  BY <1>1 DEF UninstallInv, Removed, driverVars, historyVars
<1>4. LoginInv'
  BY <1>1 DEF LoginInv, historyVars
<1>5. CertificateInv'
  BY <1>1 DEF CertificateInv, historyVars
<1>. QED BY <1>2, <1>3, <1>4, <1>5

\* A launch that finds its marker switches nothing on.
LEMMA LaunchKeeps == ASSUME IInv, Launch, UNCHANGED historyVars PROVE IInv'
<1> USE DEF IInv
<1>1. /\ task = Idle /\ task.op = "none" /\ acts' = acts + 1 /\ told' = "launched"
      /\ UNCHANGED <<driverVars, task, files, historyVars>>
  BY DEF Launch, Asked, Idle
<1>2. \/ ~marker /\ marker' = TRUE /\ EnableAutostart
      \/ marker' \in {marker, TRUE} /\ UNCHANGED <<service, plist>>
  BY DEF Launch, RunFirstLaunch
<1>3. service' \in {"off", "on", "approval"} /\ plist' \in BOOLEAN /\ marker' \in BOOLEAN
  BY <1>2, LoginItemTypes DEF Types, LoginTypes
<1>4. Types'
  BY <1>1, <1>3 DEF Types, DriverTypes, LoginTypes, FilesTypes, HistoryTypes, driverVars, historyVars, Wanted
<1>5. UninstallInv'
  BY <1>1 DEF UninstallInv, Removed
<1>6. LoginInv'
  <2>1. marker => marker' /\ UNCHANGED <<service, plist>>
    BY <1>2, <1>3, Zenon DEF Types, LoginTypes
  <2>. QED BY <1>1, <2>1 DEF LoginInv, historyVars
<1>7. CertificateInv'
  BY <1>1 DEF CertificateInv, historyVars
<1>. QED BY <1>4, <1>5, <1>6, <1>7
-----------------------------------------------------------------------------
(* The certificate.                                                        *)

LEMMA WantedFacts ==
    ASSUME NEW addresses \in SUBSET Addresses
    PROVE  Wanted(addresses) \subseteq Wanted(Addresses)
  BY DEF Wanted

\* The files there are, if their names take in what is asked for; or the first step of new ones.
LEMMA EnsureCertificateKeeps ==
    ASSUME NEW addresses \in SUBSET Addresses, IInv, EnsureCertificate(addresses), asks' = Wanted(addresses),
           UNCHANGED <<refused, choice, lapsed, torn>>
    PROVE  IInv'
<1> USE DEF IInv
<1>1. /\ task = Idle /\ task.op = "none" /\ acts' = acts + 1
      /\ UNCHANGED <<driverVars, loginVars, files, refused, choice, lapsed, torn>>
  BY DEF EnsureCertificate, Asked, Idle
<1>2. asks' \subseteq Wanted(Addresses)
  BY WantedFacts
<1>3. CASE Cached(addresses)
  <2>1. task' \in Tasks /\ task' = Idle /\ task'.op = "none" /\ told' = "certified"
    BY <1>3, TaskEnds DEF EnsureCertificate
  <2>2. asks' \subseteq files.names
    BY <1>3 DEF Cached, Covers
  <2>3. Types'
    BY <1>1, <1>2, <2>1 DEF Types, DriverTypes, LoginTypes, FilesTypes, HistoryTypes, driverVars, loginVars, Wanted
  <2>4. UninstallInv'
    BY <2>1 DEF UninstallInv, Removed
  <2>5. LoginInv'
    BY <1>1 DEF LoginInv, loginVars
  <2>6. CertificateInv'
    BY <1>1, <2>1, <2>2 DEF CertificateInv
  <2>. QED BY <2>3, <2>4, <2>5, <2>6
<1>4. CASE ~Cached(addresses)
  <2>1. task' = [op |-> "certify", at |-> 1, for |-> addresses] /\ told' = "nothing"
    BY <1>4 DEF EnsureCertificate
  <2>2. task' \in Tasks /\ task'.op = "certify" /\ task'.at = 1 /\ task'.for = addresses
    <3>1. task' \in [op : {"certify"}, at : 1..3, for : SUBSET Addresses]
      BY <2>1
    <3>. QED BY <2>1, <3>1 DEF Tasks
  <2>3. Types'
    BY <1>1, <1>2, <2>1, <2>2
    DEF Types, DriverTypes, LoginTypes, FilesTypes, HistoryTypes, driverVars, loginVars, Wanted
  <2>4. UninstallInv'
    BY <2>1, <2>2 DEF UninstallInv, Removed
  <2>5. LoginInv'
    BY <1>1 DEF LoginInv, loginVars
  <2>6. CertificateInv'
    BY <1>1, <2>1, <2>2 DEF CertificateInv, Wanted
  <2>. QED BY <2>3, <2>4, <2>5, <2>6
<1>. QED BY <1>3, <1>4

\* The files are written in their order, each for the names that were asked.
LEMMA WriteCertificateKeeps == ASSUME IInv, WriteCertificate, UNCHANGED historyVars PROVE IInv'
<1> USE DEF IInv
<1>1. /\ task \in Tasks /\ task.op = "certify" /\ task # Idle /\ told = "nothing" /\ task.at \in 1..3
      /\ task.for \in SUBSET Addresses
      /\ UNCHANGED <<driverVars, loginVars, acts, historyVars>>
  BY TaskFacts DEF WriteCertificate, Types, Idle
<1>2. Wanted(task.for) \subseteq Wanted(Addresses)
  BY <1>1, WantedFacts
<1>3. \/ task.at < 3 /\ GoesOn
      \/ task.at = 3 /\ Comes("certified")
  BY <1>1 DEF WriteCertificate
<1>4. \/ /\ task' \in Tasks /\ task'.op = "certify" /\ task'.at = task.at + 1 /\ task'.for = task.for
         /\ told' = "nothing" /\ task.at < 3
      \/ task' \in Tasks /\ task' = Idle /\ task'.op = "none" /\ told' = "certified" /\ task.at = 3
  <2>1. CASE task.at < 3 /\ GoesOn
    BY <1>1, <2>1, CertifyGoesOn
  <2>2. CASE task.at = 3 /\ Comes("certified")
    BY <2>2, TaskEnds
  <2>. QED BY <1>3, <2>1, <2>2
<1>5. FilesTypes'
  BY <1>1, <1>2 DEF WriteCertificate, Types, FilesTypes, Wanted
<1>6. Types'
  BY <1>1, <1>4, <1>5 DEF Types, DriverTypes, LoginTypes, HistoryTypes, driverVars, loginVars, historyVars, Wanted
<1>7. UninstallInv'
  BY <1>4 DEF UninstallInv, Removed
<1>8. LoginInv'
  BY <1>1 DEF LoginInv, loginVars, historyVars
<1>9. CertificateInv'
  <2>1. CASE task.at = 1
    <3>1. files'.cert = acts /\ files'.covers = Wanted(task.for)
      <4>1. files' = [files EXCEPT !.cert = acts, !.covers = Wanted(task.for)]
        BY <2>1 DEF WriteCertificate
      <4>2. files \in [cert : Nat, covers : SUBSET Wanted(Addresses), key : Nat, names : SUBSET Wanted(Addresses)]
        BY DEF Types, FilesTypes
      <4>. QED BY <4>1, <4>2
    <3>. QED BY <1>1, <1>4, <2>1, <3>1 DEF CertificateInv, historyVars, Wanted
  <2>2. CASE task.at = 2
    <3>1. files'.cert = files.cert /\ files'.covers = files.covers /\ files'.key = acts
      BY <1>1, <2>2 DEF WriteCertificate, Types, FilesTypes
    <3>. QED BY <1>1, <1>4, <2>2, <3>1 DEF CertificateInv, historyVars, Wanted
  <2>3. CASE task.at = 3
    <3>1. /\ files'.cert = files.cert /\ files'.covers = files.covers /\ files'.key = files.key
          /\ files'.names = Wanted(task.for)
      BY <1>1, <2>3 DEF WriteCertificate, Types, FilesTypes
    <3>. QED BY <1>1, <1>4, <2>3, <3>1 DEF CertificateInv, historyVars
  <2>. QED BY <1>1, <2>1, <2>2, <2>3
<1>. QED BY <1>6, <1>7, <1>8, <1>9
-----------------------------------------------------------------------------
(* The whole.                                                              *)

\* What is torn is torn from then on, and between tasks nothing is.
LEMMA CrashKeeps ==
    ASSUME IInv, Crash, torn' = (torn \/ task.op = "certify"), UNCHANGED <<refused, choice, lapsed, asks>>
    PROVE  IInv'
<1> USE DEF IInv
<1>1. UNCHANGED <<driverVars, loginVars, files, acts, refused, choice, lapsed, asks>>
  BY DEF Crash
<1>2. task' \in Tasks /\ task' = Idle /\ task'.op = "none" /\ told' = "stopped"
  BY TaskEnds DEF Crash
<1>3. torn' \in BOOLEAN /\ (~torn' => ~torn /\ task.op # "certify")
  BY Zenon DEF Types, HistoryTypes
<1>4. Types'
  BY <1>1, <1>2, <1>3 DEF Types, DriverTypes, LoginTypes, FilesTypes, HistoryTypes, driverVars, loginVars, Wanted
<1>5. UninstallInv'
  BY <1>2 DEF UninstallInv, Removed
<1>6. LoginInv'
  BY <1>1 DEF LoginInv, loginVars
<1>7. CertificateInv'
  BY <1>1, <1>2, <1>3 DEF CertificateInv
<1>. QED BY <1>4, <1>5, <1>6, <1>7

LEMMA StepInv == IInv /\ [PropsNext]_propsVars => IInv'
<1> SUFFICES ASSUME IInv, [PropsNext]_propsVars PROVE IInv'
  OBVIOUS
<1>1. CASE InstallUser /\ UNCHANGED historyVars
  BY <1>1, InstallUserKeeps
<1>2. CASE InstallSystem /\ UNCHANGED historyVars
  BY <1>2, InstallSystemKeeps
<1>3. CASE Uninstall /\ refused' = (task.at = 4 /\ listed' # {}) /\ UNCHANGED <<choice, lapsed, asks, torn>>
  BY <1>3, UninstallKeeps
<1>4. CASE (ServerStarts \/ ServerIdles) /\ UNCHANGED historyVars
  BY <1>4, ServerStartsKeeps, ServerIdlesKeeps
<1>5. CASE \E op \in {"install", "install-everywhere", "uninstall"} : AskDriver(op) /\ UNCHANGED historyVars
  BY <1>5, AskDriverKeeps
<1>6. CASE Toggle /\ Toggled /\ UNCHANGED <<refused, asks, torn>>
  BY <1>6, ToggleKeeps
<1>7. CASE (Settings \/ Launch) /\ UNCHANGED historyVars
  BY <1>7, SettingsKeeps, LaunchKeeps
<1>8. CASE \E addresses \in SUBSET Addresses :
             EnsureCertificate(addresses) /\ asks' = Wanted(addresses) /\ UNCHANGED <<refused, choice, lapsed, torn>>
  BY <1>8, EnsureCertificateKeeps
<1>9. CASE WriteCertificate /\ UNCHANGED historyVars
  BY <1>9, WriteCertificateKeeps
<1>10. CASE Crash /\ torn' = (torn \/ task.op = "certify") /\ UNCHANGED <<refused, choice, lapsed, asks>>
  BY <1>10, CrashKeeps
<1>11. CASE UNCHANGED propsVars
  BY <1>11 DEF propsVars, vars, driverVars, loginVars, historyVars, IInv, Types, DriverTypes, LoginTypes, FilesTypes,
               HistoryTypes, UninstallInv, Removed, LoginInv, CertificateInv, Wanted
<1>. QED BY <1>1, <1>2, <1>3, <1>4, <1>5, <1>6, <1>7, <1>8, <1>9, <1>10, <1>11 DEF PropsNext

\* The inductive invariant of the set-up.
THEOREM SetupInvariant == PropsSpec => []IInv
<1>1. PropsInit => IInv
  BY InitInv
<1>2. IInv /\ [PropsNext]_propsVars => IInv'
  BY StepInv
<1>. QED BY <1>1, <1>2, PTL DEF PropsSpec

\* A driver that was reported removed stays away, with its devices, however often MIDIServer starts between the
\* steps of the removal or after it, if CoreMIDI refused none (driverInstall.ts, uninstallDriver).
THEOREM RemovalHolds == PropsSpec => []RemovedIsGone
<1>1. IInv => RemovedIsGone
  BY DEF IInv, UninstallInv, RemovedIsGone, Scopes
<1>. QED BY <1>1, SetupInvariant, PTL

\* No later launch switches on what the user switched off, if it was off then and the first launch had been
\* recorded (firstRun.ts, the marker).
THEOREM LaunchesRespectTheUser == PropsSpec => []OffStaysOff
<1>1. IInv => OffStaysOff
  BY DEF IInv, LoginInv, OffStaysOff, StartsAtLogin
<1>. QED BY <1>1, SetupInvariant, PTL

\* A certificate that is used has its own key and every address that was asked for, if no run of the bridge ended
\* while it wrote the files (certificate.ts, ensureCertificate).
THEOREM CertificatesFit == PropsSpec => []CertificateFits
<1>1. IInv => CertificateFits
  <2> SUFFICES ASSUME IInv, told = "certified", ~torn PROVE files.cert = files.key /\ asks \subseteq files.covers
    BY DEF CertificateFits
  <2>1. task = Idle
    BY DEF IInv, Types
  <2>2. task.op # "certify"
    BY <2>1 DEF Idle
  <2>. QED BY <2>2 DEF IInv, CertificateInv
<1>. QED BY <1>1, SetupInvariant, PTL
-----------------------------------------------------------------------------
(* The packets of the headset's link.                                      *)

Packet == [from : Clients, loaded : Int, seq : Nat \ {0}, at : Int, count : Nat]
Receipts == [seq : Nat, at : Int, arrived : Int]

PacketTypes ==
    /\ now \in Int /\ first \in Nat /\ mixed \in BOOLEAN
    /\ pages \in [Clients -> [loaded : Int, batching : BOOLEAN, count : Nat, seq : Nat]]
    /\ net \subseteq Packet /\ heard \subseteq Packet
    /\ stats \in [packets : Nat, events : Nat, dropped : Nat, reordered : Nat, peak : Int, last : Seq(Receipts)]

Latest == stats.last[1].seq

\* The packet that counts as the last is one that was heard, and the latest of them; and the books.
CountInv ==
    /\ heard = {} <=> stats.last = None
    /\ heard = {} => stats.dropped = 0 /\ stats.reordered = 0
    /\ ~mixed /\ heard # {} =>
        /\ \A p, q \in heard : p.from = q.from
        /\ first <= Latest /\ \A p \in heard : p.seq <= Latest
        /\ \E p \in heard : p.seq = Latest
        /\ Cardinality(Missing) <= stats.dropped
        /\ stats.dropped <= Cardinality(Missing) + stats.reordered

\* Of a page, the last packet that was heard, if any was.
HeardOf(c) == IF \E p \in heard : p.from = c THEN Latest ELSE 0

\* Where the order is kept, what is under way is what its page has sent since, each packet once.
OrderInv ==
    ordered /\ ~mixed =>
        /\ stats.dropped = 0 /\ stats.reordered = 0
        /\ \A p \in net : HeardOf(p.from) < p.seq /\ p.seq <= pages[p.from].seq
        /\ \A c \in Clients : \A n \in HeardOf(c) + 1..pages[c].seq : \E p \in net : p.from = c /\ p.seq = n
        /\ \A p, q \in net : p.from = q.from /\ p.seq = q.seq => p = q
        /\ \A c \in Clients : HeardOf(c) <= pages[c].seq

LossInv == PacketTypes /\ CountInv /\ OrderInv

Pages == [loaded : Int, batching : BOOLEAN, count : Nat, seq : Nat]

LEMMA InitLoss == WirePropsInit => LossInv
<1> SUFFICES ASSUME WirePropsInit PROVE LossInv
  OBVIOUS
<1>. USE DEF WirePropsInit, WireInit
<1>1. stats \in [packets : Nat, events : Nat, dropped : Nat, reordered : Nat, peak : Int, last : Seq(Receipts)]
  BY DEF NewStats, None
<1>2. pages \in [Clients -> [loaded : Int, batching : BOOLEAN, count : Nat, seq : Nat]]
  BY DEF Page
<1>0. now = 0 /\ first = 0 /\ mixed = FALSE /\ net = {} /\ heard = {}
  OBVIOUS
<1>3. PacketTypes
  <2>. HIDE DEF WirePropsInit, WireInit
  <2>1. now \in Int /\ first \in Nat
    BY <1>0
  <2>2. mixed \in BOOLEAN /\ net \subseteq Packet /\ heard \subseteq Packet
    BY <1>0, Zenon
  <2>. QED BY <1>1, <1>2, <2>1, <2>2, Zenon DEF PacketTypes
<1>4. CountInv
  BY DEF CountInv, NewStats
<1>5. OrderInv
  BY DEF OrderInv, NewStats, HeardOf, Page
<1>. QED BY <1>3, <1>4, <1>5 DEF LossInv

\* What the books and the order rest on.
SameBooks == UNCHANGED <<stats, heard, first, mixed>>

LEMMA LatestType == ASSUME PacketTypes, CountInv, heard # {} PROVE stats.last \in Seq(Receipts) /\ stats.last # None /\ stats.last[1] \in Receipts /\ Latest \in Nat
<1>1. stats.last \in Seq(Receipts) /\ stats.last # <<>>
  BY DEF PacketTypes, CountInv, None
<1>2. stats.last[1] \in Receipts
  BY <1>1
<1>. QED BY <1>1, <1>2 DEF Receipts, Latest, None

LEMMA SameCount == CountInv /\ SameBooks => CountInv'
BY DEF CountInv, SameBooks, Latest, Missing

LEMMA SameHeard == ASSUME SameBooks, NEW c PROVE HeardOf(c)' = HeardOf(c)
BY DEF SameBooks, HeardOf, Latest

LEMMA HeardType == ASSUME PacketTypes, CountInv, NEW c PROVE HeardOf(c) \in Nat
<1>1. CASE \E p \in heard : p.from = c
  BY <1>1, LatestType DEF HeardOf
<1>2. CASE ~\E p \in heard : p.from = c
  BY <1>2 DEF HeardOf
<1>. QED BY <1>1, <1>2

\* A page's frame begins, grows or ends, and nothing is sent.
LEMMA PageKeeps ==
    ASSUME LossInv, NEW c \in Clients, NEW page \in Pages, page.seq = pages[c].seq,
           pages' = [pages EXCEPT ![c] = page], SameBooks, UNCHANGED <<ordered, now, net>>
    PROVE  LossInv'
<1>. USE DEF LossInv
<1>1. PacketTypes'
  BY DEF PacketTypes, SameBooks, Pages
<1>2. \A d \in Clients : pages'[d].seq = pages[d].seq
  BY DEF PacketTypes
<1>3. \A p \in net : p.from \in Clients
  BY DEF PacketTypes, Packet
<1>4. OrderInv'
  <2> SUFFICES ASSUME ordered, ~mixed PROVE OrderInv'
    BY DEF OrderInv, SameBooks
  <2>. HIDE DEF LossInv
  <2>. QED BY <1>2, <1>3, SameHeard DEF LossInv, OrderInv, SameBooks
<1>. QED BY <1>1, <1>4, SameCount

\* A packet is sent.
LEMMA SentKeeps ==
    ASSUME LossInv, NEW c \in Clients, NEW after \in Pages, Finish(c, after), SameBooks, UNCHANGED <<ordered, now>>
    PROVE  LossInv'
<1> DEFINE packet == [from |-> c, loaded |-> pages[c].loaded, seq |-> pages[c].seq + 1, at |-> now - pages[c].loaded,
                      count |-> pages[c].count]
<1>1. PacketTypes /\ CountInv /\ OrderInv
  BY DEF LossInv
<1>2. pages[c] \in Pages /\ now \in Int
  BY <1>1 DEF PacketTypes, Pages
<1>3. packet \in Packet /\ packet.from = c /\ packet.seq = pages[c].seq + 1
  BY <1>2 DEF Packet, Pages
<1>4. net' = net \cup {packet} /\ pages' = [pages EXCEPT ![c] = [after EXCEPT !.seq = pages[c].seq + 1]]
  BY DEF Finish
<1>5. [after EXCEPT !.seq = pages[c].seq + 1] \in Pages /\ [after EXCEPT !.seq = pages[c].seq + 1].seq = pages[c].seq + 1
  BY <1>2 DEF Pages
<1>. HIDE DEF packet
<1>6. pages' \in [Clients -> Pages] /\ pages'[c].seq = pages[c].seq + 1 /\ \A d \in Clients \ {c} : pages'[d] = pages[d]
  BY <1>1, <1>4, <1>5 DEF PacketTypes, Pages
<1>7. PacketTypes'
  BY <1>1, <1>3, <1>4, <1>6 DEF PacketTypes, SameBooks, Pages
<1>8. OrderInv'
  <2> SUFFICES ASSUME ordered, ~mixed PROVE OrderInv'
    BY DEF OrderInv, SameBooks
  <2>1. \A d \in Clients : pages[d].seq \in Nat /\ HeardOf(d) \in Nat /\ HeardOf(d)' = HeardOf(d)
    BY <1>1, HeardType, SameHeard DEF PacketTypes
  <2>2. \A p \in net : p.from \in Clients /\ p.seq \in Nat
    BY <1>1 DEF PacketTypes, Packet
  <2>3. \A p \in net : HeardOf(p.from) < p.seq /\ p.seq <= pages[p.from].seq
    BY <1>1 DEF OrderInv
  <2>4. \A d \in Clients : HeardOf(d) <= pages[d].seq
    BY <1>1 DEF OrderInv
  <2>5. \A p \in net' : HeardOf(p.from)' < p.seq /\ p.seq <= pages'[p.from].seq
    BY <1>3, <1>4, <1>6, <2>1, <2>2, <2>3, <2>4
  <2>6. ASSUME NEW d \in Clients, NEW n \in HeardOf(d)' + 1..pages'[d].seq PROVE \E p \in net' : p.from = d /\ p.seq = n
    <3>1. CASE d = c /\ n = pages[c].seq + 1
      BY <3>1, <1>3, <1>4
    <3>2. CASE ~(d = c /\ n = pages[c].seq + 1)
      <4>1. n \in HeardOf(d) + 1..pages[d].seq
        BY <3>2, <2>1, <2>6, <1>6
      <4>. QED BY <4>1, <1>1, <1>4 DEF OrderInv
    <3>. QED BY <3>1, <3>2
  <2>7. \A p, q \in net' : p.from = q.from /\ p.seq = q.seq => p = q
    <3>1. \A p \in net : p.from = c => p.seq # packet.seq
      BY <1>3, <2>1, <2>2, <2>3
    <3>2. \A p, q \in net : p.from = q.from /\ p.seq = q.seq => p = q
      BY <1>1 DEF OrderInv
    <3>. QED BY <3>1, <3>2, <1>3, <1>4
  <2>8. \A d \in Clients : HeardOf(d)' <= pages'[d].seq
    BY <2>1, <2>4, <1>6
  <2>. QED BY <1>1, <2>5, <2>6, <2>7, <2>8 DEF OrderInv, SameBooks
<1>. QED BY <1>1, <1>7, <1>8, SameCount DEF LossInv

LastOf(S, n) == n \in S /\ \A m \in S : m \in Nat /\ m <= n

\* A packet that comes after the last one leaves those between the two missing.
LEMMA MissingGrows ==
    ASSUME NEW from \in Nat, NEW last \in Nat, NEW next \in Nat, from <= last, last < next,
           NEW S, LastOf(S, last)
    PROVE  Cardinality((from + 1..next - 1) \ (S \cup {next})) = Cardinality((from + 1..last - 1) \ S) + (next - 1 - last)
<1> DEFINE M == (from + 1..last - 1) \ S
<1>1. (from + 1..next - 1) \ (S \cup {next}) = M \cup (last + 1..next - 1)
  BY DEF LastOf
<1>2. M \cap (last + 1..next - 1) = {}
  OBVIOUS
<1>3. IsFiniteSet(from + 1..last - 1) /\ IsFiniteSet(last + 1..next - 1)
  BY FS_Interval
<1>4. IsFiniteSet(M)
  BY <1>3, FS_Subset
<1>5. Cardinality(last + 1..next - 1) = next - 1 - last
  BY FS_Interval
<1>. HIDE DEF M
<1>6. Cardinality(M \cup (last + 1..next - 1)) = Cardinality(M) + Cardinality(last + 1..next - 1) - Cardinality({})
  BY <1>2, <1>3, <1>4, FS_Union
<1>7. Cardinality(M) \in Nat
  BY <1>4, FS_CardinalityType
<1>8. Cardinality(M \cup (last + 1..next - 1)) = Cardinality(M) + (next - 1 - last)
  BY <1>5, <1>6, <1>7, FS_EmptySet
<1>. QED BY <1>1, <1>8 DEF M

LEMMA OneLess ==
    ASSUME NEW M, IsFiniteSet(M), NEW x
    PROVE  /\ Cardinality(M) \in Nat /\ Cardinality(M \ {x}) \in Nat
           /\ Cardinality(M \ {x}) <= Cardinality(M) /\ Cardinality(M) <= Cardinality(M \ {x}) + 1
<1>1. Cardinality(M \ {x}) = IF x \in M THEN Cardinality(M) - 1 ELSE Cardinality(M)
  BY FS_RemoveElement
<1>2. IsFiniteSet(M \ {x})
  BY FS_RemoveElement
<1>3. Cardinality(M) \in Nat /\ Cardinality(M \ {x}) \in Nat
  BY <1>2, FS_CardinalityType
<1>. QED BY <1>1, <1>3

\* One that comes late is one less, if it was missing at all.
LEMMA MissingShrinks ==
    ASSUME NEW from \in Nat, NEW last \in Nat, NEW S, NEW late
    PROVE  /\ Cardinality((from + 1..last - 1) \ S) \in Nat
           /\ Cardinality((from + 1..last - 1) \ (S \cup {late})) \in Nat
           /\ Cardinality((from + 1..last - 1) \ (S \cup {late})) <= Cardinality((from + 1..last - 1) \ S)
           /\ Cardinality((from + 1..last - 1) \ S) <= Cardinality((from + 1..last - 1) \ (S \cup {late})) + 1
<1> DEFINE M == (from + 1..last - 1) \ S
<1>1. (from + 1..last - 1) \ (S \cup {late}) = M \ {late}
  OBVIOUS
<1>2. IsFiniteSet(from + 1..last - 1)
  BY FS_Interval
<1>. HIDE DEF M
<1>3. IsFiniteSet(M)
  BY <1>2, FS_Subset DEF M
<1>4. /\ Cardinality(M) \in Nat /\ Cardinality(M \ {late}) \in Nat
      /\ Cardinality(M \ {late}) <= Cardinality(M) /\ Cardinality(M) <= Cardinality(M \ {late}) + 1
  BY <1>3, OneLess
<1>. QED BY <1>1, <1>4 DEF M

\* What the books say after a packet.
LEMMA OnPacketFacts ==
    ASSUME PacketTypes, CountInv, NEW p \in Packet, stats' = OnPacket(stats, p)
    PROVE  /\ stats' \in [packets : Nat, events : Nat, dropped : Nat, reordered : Nat, peak : Int, last : Seq(Receipts)]
           /\ stats'.last # None
           /\ heard = {} => Latest' = p.seq /\ stats'.dropped = stats.dropped /\ stats'.reordered = stats.reordered
           /\ heard # {} /\ p.seq > Latest =>
                Latest' = p.seq /\ stats'.dropped = stats.dropped + (p.seq - 1 - Latest) /\ stats'.reordered = stats.reordered
           /\ heard # {} /\ p.seq <= Latest =>
                Latest' = Latest /\ stats'.dropped = stats.dropped /\ stats'.reordered = stats.reordered + 1
<1>1. /\ stats.packets \in Nat /\ stats.events \in Nat /\ stats.dropped \in Nat /\ stats.reordered \in Nat /\ stats.peak \in Int
      /\ now \in Int /\ p.seq \in Nat /\ p.at \in Int /\ p.count \in Nat
  BY DEF PacketTypes, Packet
<1>2. heard = {} <=> stats.last = None
  BY DEF CountInv
<1>3. CASE heard = {}
  <2>1. stats' = [packets |-> stats.packets + 1, events |-> stats.events + p.count, dropped |-> stats.dropped,
                  reordered |-> stats.reordered, peak |-> IF 0 > stats.peak THEN 0 ELSE stats.peak,
                  last |-> <<[seq |-> p.seq, at |-> p.at, arrived |-> now]>>]
    BY <1>2, <1>3 DEF OnPacket
  <2>2. [seq |-> p.seq, at |-> p.at, arrived |-> now] \in Receipts
    BY <1>1 DEF Receipts
  <2>. QED BY <1>1, <1>3, <2>1, <2>2 DEF Latest, None
<1>4. CASE heard # {}
  <2>1. stats.last # None /\ stats.last[1] \in Receipts /\ Latest \in Nat /\ Latest = stats.last[1].seq
    BY <1>4, LatestType DEF Latest
  <2>2. stats.last[1].at \in Int /\ stats.last[1].arrived \in Int
    BY <2>1 DEF Receipts
  <2> DEFINE jitter == Away(now + stats.last[1].at, stats.last[1].arrived + p.at)
             newest == IF p.seq <= Latest THEN Latest ELSE p.seq
  <2>3. jitter \in Int
    BY <1>1, <2>2 DEF Away
  <2>4. stats' = [packets |-> stats.packets + 1, events |-> stats.events + p.count,
                  dropped |-> IF p.seq > Latest + 1 THEN stats.dropped + p.seq - Latest - 1 ELSE stats.dropped,
                  reordered |-> IF p.seq <= Latest THEN stats.reordered + 1 ELSE stats.reordered,
                  peak |-> IF jitter > stats.peak THEN jitter ELSE stats.peak,
                  last |-> <<[seq |-> newest, at |-> p.at, arrived |-> now]>>]
    BY <2>1 DEF OnPacket
  <2>. HIDE DEF jitter
  <2>5. [seq |-> newest, at |-> p.at, arrived |-> now] \in Receipts
    BY <1>1, <2>1 DEF Receipts
  <2>6. Latest' = newest /\ stats'.last # None /\ stats'.last \in Seq(Receipts)
    BY <2>4, <2>5 DEF Latest, None
  <2>7. stats'.dropped = (IF p.seq > Latest + 1 THEN stats.dropped + p.seq - Latest - 1 ELSE stats.dropped) /\ stats'.dropped \in Nat
    BY <1>1, <2>1, <2>4
  <2>8. stats'.reordered = (IF p.seq <= Latest THEN stats.reordered + 1 ELSE stats.reordered) /\ stats'.reordered \in Nat
    BY <1>1, <2>1, <2>4
  <2>9. stats' \in [packets : Nat, events : Nat, dropped : Nat, reordered : Nat, peak : Int, last : Seq(Receipts)]
    BY <1>1, <2>3, <2>4, <2>6, <2>7, <2>8
  <2>10. p.seq > Latest =>
            Latest' = p.seq /\ stats'.dropped = stats.dropped + (p.seq - 1 - Latest) /\ stats'.reordered = stats.reordered
    BY <1>1, <2>1, <2>6, <2>7, <2>8
  <2>11. p.seq <= Latest =>
            Latest' = Latest /\ stats'.dropped = stats.dropped /\ stats'.reordered = stats.reordered + 1
    BY <1>1, <2>1, <2>6, <2>7, <2>8
  <2>. QED BY <1>4, <2>6, <2>9, <2>10, <2>11
<1>. QED BY <1>3, <1>4

\* A packet arrives: it is in turn, or late, or leaves others missing.
LEMMA ArriveKeeps == ASSUME LossInv, NEW p \in net, Arrive(p), Hears(p) PROVE LossInv'
<1>1. PacketTypes /\ CountInv /\ OrderInv
  BY DEF LossInv
<1>2. p \in Packet /\ p.from \in Clients /\ p.seq \in Nat \ {0}
  BY <1>1 DEF PacketTypes, Packet
<1>3. stats' = OnPacket(stats, p) /\ heard' = heard \cup {p} /\ first' = (IF heard = {} THEN p.seq ELSE first)
      /\ UNCHANGED <<ordered, now, pages>> /\ net' \subseteq net
  BY DEF Arrive, Hears
<1>4. mixed' = (mixed \/ \E q \in heard : q.from # p.from)
  BY DEF Hears
<1>5. PacketTypes'
  <2>1. mixed' \in BOOLEAN
    BY <1>4
  <2>. QED BY <1>1, <1>2, <1>3, <2>1, OnPacketFacts DEF PacketTypes
<1>6. CountInv'
  <2>1. heard' # {} /\ stats'.last # None
    BY <1>1, <1>2, <1>3, OnPacketFacts
  <2> SUFFICES ASSUME ~mixed'
               PROVE  /\ \A r, q \in heard' : r.from = q.from
                      /\ first' <= Latest' /\ \A q \in heard' : q.seq <= Latest'
                      /\ \E q \in heard' : q.seq = Latest'
                      /\ Cardinality(Missing') <= stats'.dropped
                      /\ stats'.dropped <= Cardinality(Missing') + stats'.reordered
    BY <2>1 DEF CountInv
  <2>2. ~mixed /\ \A q \in heard : q.from = p.from
    BY <1>4
  <2>3. \A r, q \in heard' : r.from = q.from
    BY <1>3, <2>2
  <2>4. CASE heard = {}
    <3>1. Latest' = p.seq /\ stats'.dropped = 0 /\ stats'.reordered = 0 /\ first' = p.seq
      BY <1>1, <1>2, <1>3, <2>4, OnPacketFacts DEF CountInv
    <3>2. Missing' = {}
      BY <1>2, <3>1 DEF Missing, Latest
    <3>. QED BY <1>2, <1>3, <2>3, <2>4, <3>1, <3>2, FS_EmptySet
  <2>5. CASE heard # {}
    <3> DEFINE S == {q.seq : q \in heard}
    <3>1. Latest \in Nat /\ first \in Nat /\ first' = first
      BY <1>1, <1>3, <2>5, LatestType DEF PacketTypes
    <3>2. /\ first <= Latest /\ \A q \in heard : q.seq \in Nat /\ q.seq <= Latest
          /\ \E q \in heard : q.seq = Latest
          /\ Cardinality(Missing) <= stats.dropped
          /\ stats.dropped <= Cardinality(Missing) + stats.reordered
      BY <1>1, <2>2, <2>5 DEF CountInv, PacketTypes, Packet
    <3>3. Missing = (first + 1..Latest - 1) \ S /\ Missing' = (first + 1..Latest' - 1) \ (S \cup {p.seq})
      BY <1>3, <3>1 DEF Missing, Latest
    <3>4. stats.dropped \in Nat /\ stats.reordered \in Nat
      BY <1>1 DEF PacketTypes
    <3>5. CASE p.seq > Latest
      <4>1. Latest' = p.seq /\ stats'.dropped = stats.dropped + (p.seq - 1 - Latest) /\ stats'.reordered = stats.reordered
        BY <1>1, <1>2, <1>3, <2>5, <3>5, OnPacketFacts
      <4>2. LastOf(S, Latest)
        BY <3>2 DEF LastOf
      <4>. HIDE DEF S
      <4>3. Cardinality(Missing') = Cardinality(Missing) + (p.seq - 1 - Latest)
        <5>1. Missing' = (first + 1..p.seq - 1) \ (S \cup {p.seq})
          BY <3>3, <4>1
        <5>2. first \in Nat /\ Latest \in Nat /\ p.seq \in Nat /\ first <= Latest /\ Latest < p.seq
          BY <1>2, <3>1, <3>2, <3>5
        <5>3. Cardinality((first + 1..p.seq - 1) \ (S \cup {p.seq}))
                = Cardinality((first + 1..Latest - 1) \ S) + (p.seq - 1 - Latest)
          <6> DEFINE next == p.seq
          <6>. HIDE DEF next
          <6>1. next \in Nat /\ Latest < next
            BY <5>2 DEF next
          <6>2. Cardinality((first + 1..next - 1) \ (S \cup {next})) = Cardinality((first + 1..Latest - 1) \ S) + (next - 1 - Latest)
            BY ONLY <4>2, <5>2, <6>1, MissingGrows, SMTT(20)
          <6>. QED BY <6>2 DEF next
        <5>. QED BY <3>3, <5>1, <5>3
      <4>4. Cardinality(Missing) \in Nat
        BY <3>1, <3>3, MissingShrinks
      <4>5. Cardinality(Missing') <= stats'.dropped /\ stats'.dropped <= Cardinality(Missing') + stats'.reordered
        BY <1>2, <3>1, <3>2, <3>4, <4>1, <4>3, <4>4
      <4>. QED BY <1>2, <1>3, <2>3, <3>1, <3>2, <3>5, <4>1, <4>5
    <3>6. CASE p.seq <= Latest
      <4>1. Latest' = Latest /\ stats'.dropped = stats.dropped /\ stats'.reordered = stats.reordered + 1
        BY <1>1, <1>2, <1>3, <2>5, <3>6, OnPacketFacts
      <4>. HIDE DEF S
      <4>2. Missing' = (first + 1..Latest - 1) \ (S \cup {p.seq})
        BY <3>3, <4>1
      <4>3. /\ Cardinality(Missing') \in Nat /\ Cardinality(Missing) \in Nat
            /\ Cardinality(Missing') <= Cardinality(Missing) /\ Cardinality(Missing) <= Cardinality(Missing') + 1
        BY <3>1, <3>3, <4>2, MissingShrinks
      <4>4. Cardinality(Missing') <= stats'.dropped /\ stats'.dropped <= Cardinality(Missing') + stats'.reordered
        BY <3>2, <3>4, <4>1, <4>3
      <4>. QED BY <1>2, <1>3, <2>3, <3>1, <3>2, <3>6, <4>1, <4>4
    <3>. QED BY <1>2, <3>1, <3>5, <3>6
  <2>. QED BY <2>4, <2>5
<1>7. OrderInv'
  <2> SUFFICES ASSUME ordered, ~mixed' PROVE OrderInv'
    BY <1>3 DEF OrderInv
  <2>1. ~mixed /\ \A q \in heard : q.from = p.from
    BY <1>4
  <2>2. net' = net \ {p} /\ \A q \in net : q.from = p.from => p.seq <= q.seq
    BY DEF Arrive
  <2>3. \A q \in net : q.from \in Clients /\ q.seq \in Nat \ {0}
    BY <1>1 DEF PacketTypes, Packet
  <2>4. \A c \in Clients : pages[c].seq \in Nat /\ HeardOf(c) \in Nat
    BY <1>1, HeardType DEF PacketTypes
  <2>5. /\ stats.dropped = 0 /\ stats.reordered = 0
        /\ \A q \in net : HeardOf(q.from) < q.seq /\ q.seq <= pages[q.from].seq
        /\ \A c \in Clients : \A n \in HeardOf(c) + 1..pages[c].seq : \E q \in net : q.from = c /\ q.seq = n
        /\ \A q, r \in net : q.from = r.from /\ q.seq = r.seq => q = r
        /\ \A c \in Clients : HeardOf(c) <= pages[c].seq
    BY <1>1, <2>1 DEF OrderInv
  <2>6. p.seq = HeardOf(p.from) + 1
    <3>1. HeardOf(p.from) < p.seq /\ p.seq <= pages[p.from].seq
      BY <2>5
    <3>2. HeardOf(p.from) + 1 \in HeardOf(p.from) + 1..pages[p.from].seq
      BY <1>2, <2>4, <3>1
    <3>3. PICK q \in net : q.from = p.from /\ q.seq = HeardOf(p.from) + 1
      BY <1>2, <2>5, <3>2
    <3>. QED BY <1>2, <2>2, <2>4, <3>1, <3>3
  <2>7. heard # {} => HeardOf(p.from) = Latest
    BY <2>1 DEF HeardOf
  <2>8. heard # {} => p.seq > Latest /\ p.seq - 1 - Latest = 0
    BY <1>1, <2>6, <2>7, LatestType
  <2>9. Latest' = p.seq /\ stats'.dropped = 0 /\ stats'.reordered = 0
    BY <1>1, <1>2, <1>3, <2>5, <2>8, OnPacketFacts
  <2>10. HeardOf(p.from)' = p.seq
    BY <1>3, <2>9 DEF HeardOf
  <2>11. \A c \in Clients \ {p.from} : HeardOf(c)' = HeardOf(c)
    BY <1>3, <2>1 DEF HeardOf
  <2>12. \A q \in net' : HeardOf(q.from)' < q.seq /\ q.seq <= pages'[q.from].seq
    <3> SUFFICES ASSUME NEW q \in net' PROVE HeardOf(q.from)' < q.seq /\ q.seq <= pages'[q.from].seq
      OBVIOUS
    <3>1. q \in net /\ q # p
      BY <2>2
    <3>2. CASE q.from = p.from
      <4>1. q.seq # p.seq /\ p.seq <= q.seq
        BY <2>2, <2>5, <3>1, <3>2
      <4>2. HeardOf(q.from)' = p.seq
        BY <2>10, <3>2
      <4>. QED BY <1>2, <1>3, <2>3, <2>5, <3>1, <4>1, <4>2
    <3>3. CASE q.from # p.from
      BY <1>3, <2>3, <2>5, <2>11, <3>1, <3>3
    <3>. QED BY <3>2, <3>3
  <2>13. ASSUME NEW c \in Clients, NEW n \in HeardOf(c)' + 1..pages'[c].seq PROVE \E q \in net' : q.from = c /\ q.seq = n
    <3>1. n \in HeardOf(c) + 1..pages[c].seq /\ ~(c = p.from /\ n = p.seq)
      <4>1. CASE c = p.from
        BY <1>2, <1>3, <2>4, <2>6, <2>10, <2>13, <4>1
      <4>2. CASE c # p.from
        BY <1>3, <2>11, <2>13, <4>2
      <4>. QED BY <4>1, <4>2
    <3>2. PICK q \in net : q.from = c /\ q.seq = n
      BY <2>5, <3>1
    <3>. QED BY <2>2, <3>1, <3>2
  <2>14. \A c \in Clients : HeardOf(c)' <= pages'[c].seq
    BY <1>2, <1>3, <2>5, <2>10, <2>11
  <2>15. \A q, r \in net' : q.from = r.from /\ q.seq = r.seq => q = r
    BY <2>2, <2>5
  <2>. QED BY <2>9, <2>12, <2>13, <2>14, <2>15 DEF OrderInv
<1>. QED BY <1>5, <1>6, <1>7 DEF LossInv

\* A page is loaded again: nothing more is claimed.
LEMMA ReloadKeeps ==
    ASSUME LossInv, NEW c \in Clients, ReloadPage(c), mixed' = TRUE, UNCHANGED <<heard, first, slowest>> PROVE LossInv'
<1>1. PacketTypes /\ CountInv
  BY DEF LossInv
<1>2. Page(now) \in Pages
  BY <1>1 DEF PacketTypes, Page, Pages
<1>3. net' \subseteq net /\ pages' = [pages EXCEPT ![c] = Page(now)] /\ UNCHANGED <<ordered, now, stats>>
  BY DEF ReloadPage
<1>4. PacketTypes'
  BY <1>1, <1>2, <1>3 DEF PacketTypes, Pages
<1>5. CountInv'
  BY <1>1, <1>3 DEF CountInv
<1>6. OrderInv'
  BY DEF OrderInv
<1>. QED BY <1>4, <1>5, <1>6 DEF LossInv

\* The window is reset, or time goes by.
LEMMA QuietKeeps ==
    ASSUME LossInv, ResetWindow \/ Tick, UNCHANGED heardVars PROVE LossInv'
<1>1. PacketTypes /\ CountInv /\ OrderInv
  BY DEF LossInv
<1>2. UNCHANGED <<ordered, pages, net, heard, first, mixed>> /\ now' \in Int
  BY <1>1 DEF ResetWindow, Tick, heardVars, PacketTypes
<1>3. /\ stats' \in [packets : Nat, events : Nat, dropped : Nat, reordered : Nat, peak : Int, last : Seq(Receipts)]
      /\ stats'.dropped = stats.dropped /\ stats'.reordered = stats.reordered /\ stats'.last = stats.last
  BY <1>1 DEF ResetWindow, Tick, PacketTypes
<1>4. Latest' = Latest /\ Missing' = Missing /\ \A c : HeardOf(c)' = HeardOf(c)
  BY <1>2, <1>3 DEF Latest, Missing, HeardOf
<1>5. PacketTypes'
  BY <1>1, <1>2, <1>3 DEF PacketTypes
<1>6. CountInv'
  BY <1>1, <1>2, <1>3, <1>4 DEF CountInv
<1>7. OrderInv'
  BY <1>1, <1>2, <1>3, <1>4 DEF OrderInv
<1>. QED BY <1>5, <1>6, <1>7 DEF LossInv

LEMMA StepLoss == LossInv /\ [WirePropsNext]_wirePropsVars => LossInv'
<1> SUFFICES ASSUME LossInv, [WirePropsNext]_wirePropsVars PROVE LossInv'
  OBVIOUS
<1>0. \A c \in Clients : pages[c] \in Pages
  BY DEF LossInv, PacketTypes, Pages
<1>1. CASE RostersNext \/ UNCHANGED wirePropsVars
  <2>1. UNCHANGED <<statsVars, heardVars>>
    BY <1>1 DEF RostersNext, Rosters, SendRoster, wirePropsVars, wireVars
  <2>2. SameBooks /\ UNCHANGED <<ordered, now, pages, net>>
    BY <2>1 DEF statsVars, heardVars, SameBooks
  <2>3. PacketTypes' /\ OrderInv'
    BY <2>2, SameHeard DEF LossInv, PacketTypes, OrderInv, SameBooks
  <2>. QED BY <2>2, <2>3, SameCount DEF LossInv
<1>2. ASSUME NEW c \in Clients, BeginFrame(c), UNCHANGED heardVars PROVE LossInv'
  <2> DEFINE page == [pages[c] EXCEPT !.batching = TRUE, !.count = 0]
  <2>1. pages' = [pages EXCEPT ![c] = page] /\ SameBooks /\ UNCHANGED <<ordered, now, net>>
    BY <1>2 DEF BeginFrame, heardVars, SameBooks
  <2>2. page \in Pages /\ page.seq = pages[c].seq
    BY <1>0 DEF Pages
  <2>. QED BY <2>1, <2>2, PageKeeps
<1>3. ASSUME NEW c \in Clients, NEW open \in BOOLEAN, Push(c, open), UNCHANGED heardVars PROVE LossInv'
  <2>1. SameBooks /\ UNCHANGED <<ordered, now>>
    BY <1>3 DEF Push, heardVars, SameBooks
  <2>2. pages[c] \in Pages
    BY <1>0
  <2>3. CASE pages' = [pages EXCEPT ![c].count = @ + 1] /\ UNCHANGED net
    <3> DEFINE page == [pages[c] EXCEPT !.count = @ + 1]
    <3>1. page \in Pages /\ page.seq = pages[c].seq
      BY <2>2 DEF Pages
    <3>. QED BY <2>1, <2>3, <3>1, PageKeeps
  <2>4. CASE Finish(c, [pages[c] EXCEPT !.count = 1])
    <3>1. [pages[c] EXCEPT !.count = 1] \in Pages
      BY <2>2 DEF Pages
    <3>. QED BY <2>1, <2>4, <3>1, SentKeeps
  <2>5. CASE pages' = [pages EXCEPT ![c].batching = FALSE] /\ UNCHANGED net
    <3> DEFINE page == [pages[c] EXCEPT !.batching = FALSE]
    <3>1. page \in Pages /\ page.seq = pages[c].seq
      BY <2>2 DEF Pages
    <3>. QED BY <2>1, <2>5, <3>1, PageKeeps
  <2>. QED BY <1>3, <2>3, <2>4, <2>5 DEF Push
<1>4. ASSUME NEW c \in Clients, NEW open \in BOOLEAN, EndFrame(c, open), UNCHANGED heardVars PROVE LossInv'
  <2> DEFINE ended == [pages[c] EXCEPT !.batching = FALSE]
  <2>1. SameBooks /\ UNCHANGED <<ordered, now>>
    BY <1>4 DEF EndFrame, heardVars, SameBooks
  <2>2. ended \in Pages /\ ended.seq = pages[c].seq
    BY <1>0 DEF Pages
  <2>3. Finish(c, ended) \/ (pages' = [pages EXCEPT ![c] = ended] /\ UNCHANGED net)
    BY <1>4 DEF EndFrame
  <2>. HIDE DEF ended
  <2>. QED BY <2>1, <2>2, <2>3, SentKeeps, PageKeeps
<1>. QED
  BY <1>1, <1>2, <1>3, <1>4, ArriveKeeps, ReloadKeeps, QuietKeeps DEF WirePropsNext, PacketsNext

\* The inductive invariant of the statistics.
THEOREM LossInvariant == WirePropsSpec => []LossInv
<1>. QED BY InitLoss, StepLoss, PTL DEF WirePropsSpec

\* Every packet of one page, loaded once, that is missing between the first that arrived and the last is counted as
\* lost, nothing is that was not at least late, and a transport that keeps the order shows neither loss nor packets
\* out of turn (Stats.ts, onPacket; BridgeLink.ts, push and endFrame).
THEOREM LossesAreCounted == WirePropsSpec => []LossIsCounted
<1>1. LossInv => LossIsCounted
  BY DEF LossInv, CountInv, OrderInv, LossIsCounted
<1>. QED BY <1>1, LossInvariant, PTL
-----------------------------------------------------------------------------
(* Sequences and functions on the numbers up to some other.                *)

\* Induction over the numbers up to N, by the least one that is not in G.
LEMMA Induction ==
    ASSUME NEW N \in Nat, NEW G, 0 \in G, \A n \in 1..N : n - 1 \in G => n \in G
    PROVE  0..N \subseteq G
<1> DEFINE T == {n \in 0..N : n \notin G}
           U == {1..n : n \in T}
<1> SUFFICES ASSUME T # {} PROVE FALSE
  OBVIOUS
<1>1. \A n \in T : 1..n \in FiniteSubsetsOf(Nat)
  BY FS_Interval DEF FiniteSubsetsOf
<1>2. U \subseteq FiniteSubsetsOf(Nat) /\ U # {}
  BY <1>1
<1>3. PICK v \in U : \A w \in U : ~(<<w, v>> \in StrictSubsetOrdering(Nat))
  <2> HIDE DEF U
  <2> QED BY <1>2, FS_StrictSubsetOrderingWellFounded, WFMin
<1>4. PICK n \in T : v = 1..n
  OBVIOUS
<1>5. n \in 1..N /\ n - 1 \in 0..N
  OBVIOUS
<1>6. n - 1 \in T
  BY <1>5
<1>7. 1..n - 1 \in U /\ 1..n - 1 \in SUBSET Nat /\ 1..n \in SUBSET Nat
  BY <1>6
<1>8. n \in 1..n /\ n \notin 1..n - 1 /\ 1..n - 1 \subseteq 1..n
  BY <1>5
<1> QED BY <1>3, <1>4, <1>7, <1>8 DEF StrictSubsetOrdering


\* g goes on from a by what step does at each number up to N.
Iterates(g, N, a, step) == g[0] = a /\ \A n \in 1..N : g[n] = step[n][g[n - 1]]

\* There is such a function if every step stays in S.
LEMMA Recursion ==
    ASSUME NEW N \in Nat, NEW S, NEW a \in S, NEW step \in [1..N -> [S -> S]]
    PROVE  \E g \in [0..N -> S] : Iterates(g, N, a, step)
<1> DEFINE G == {m \in 0..N : \E g \in [0..m -> S] : Iterates(g, m, a, step)}
<1>1. 0 \in G
  <2>1. [k \in 0..0 |-> a] \in [0..0 -> S] /\ Iterates([k \in 0..0 |-> a], 0, a, step)
    BY DEF Iterates
  <2>. QED BY <2>1
<1>2. ASSUME NEW m \in 1..N, m - 1 \in G PROVE m \in G
  <2>1. PICK g \in [0..m - 1 -> S] : Iterates(g, m - 1, a, step)
    BY <1>2
  <2> DEFINE h == [k \in 0..m |-> IF k = m THEN step[m][g[m - 1]] ELSE g[k]]
  <2>2. /\ m \in 0..N /\ m - 1 \in 0..m - 1 /\ m \in 0..m
        /\ \A k \in 0..m : k = m \/ k \in 0..m - 1
        /\ \A k \in 0..m - 1 : k # m /\ k \in 0..m
        /\ \A n \in 1..m : n - 1 \in 0..m - 1 /\ (n = m \/ n \in 1..m - 1)
        /\ \A n \in 1..m - 1 : n \in 0..m - 1
    OBVIOUS
  <2>3. g[m - 1] \in S /\ step[m] \in [S -> S]
    BY <2>2
  <2>4. step[m][g[m - 1]] \in S
    BY <2>3
  <2>5. h \in [0..m -> S] /\ \A k \in 0..m - 1 : h[k] = g[k]
    BY <2>2, <2>4
  <2>6. h[m] = step[m][g[m - 1]]
    BY <2>2
  <2>. HIDE DEF h
  <2>7. Iterates(h, m, a, step)
    <3>1. h[0] = a
      BY <2>1, <2>2, <2>5 DEF Iterates
    <3>2. ASSUME NEW n \in 1..m PROVE h[n] = step[n][h[n - 1]]
      <4>1. CASE n = m
        BY <2>2, <2>5, <2>6, <4>1
      <4>2. CASE n # m
        BY <2>1, <2>2, <2>5, <4>2 DEF Iterates
      <4>. QED BY <4>1, <4>2
    <3>. QED BY <3>1, <3>2 DEF Iterates
  <2>. QED BY <2>2, <2>5, <2>7
<1>3. N \in G
  <2>. HIDE DEF G
  <2>1. 0..N \subseteq G
    BY <1>1, <1>2, Induction
  <2>. QED BY <2>1
<1>. QED BY <1>3

\* As much of a sequence as its indices tell.
LEMMA CutFacts ==
    ASSUME NEW V, NEW s \in Seq(V), NEW m \in Nat \ {0}, NEW n \in 0..Len(s)
    PROVE  /\ SubSeq(s, m, n) \in Seq(V) /\ Len(SubSeq(s, m, n)) = IF m <= n THEN n - m + 1 ELSE 0
           /\ \A i \in 1..n - m + 1 : SubSeq(s, m, n)[i] = s[m + i - 1]
<1>1. Len(s) \in Nat
  OBVIOUS
<1>2. \A i \in m..n : s[i] \in V
  BY <1>1, ElementOfSeq
<1>3. m \in Int /\ n \in Int
  BY <1>1
<1>. QED BY <1>2, <1>3, SubSeqProperties

\* Sequences one after the other.
LEMMA FlattenFacts ==
    ASSUME NEW V, NEW t \in Seq(Seq(V))
    PROVE  FlattenSeq(t) \in Seq(V) /\ (t = <<>> => FlattenSeq(t) = <<>>)
<1> DEFINE F == CHOOSE f : f = [i \in 1..Len(t) |-> IF i = 1 THEN t[i] ELSE f[i - 1] \o t[i]]
           N == Len(t) - 1
           step == [n \in 1..N |-> [q \in Seq(V) |-> q \o t[n + 1]]]
<1>1. CASE t = <<>>
  BY <1>1, EmptySeq DEF FlattenSeq
<1>2. CASE t # <<>>
  <2>1. Len(t) \in Nat /\ N \in Nat /\ 1 \in 1..Len(t) /\ Len(t) = N + 1
    BY <1>2, EmptySeq
  <2>2. \A i \in 1..Len(t) : t[i] \in Seq(V)
    BY ElementOfSeq
  <2>3. step \in [1..N -> [Seq(V) -> Seq(V)]]
    <3> SUFFICES ASSUME NEW n \in 1..N, NEW q \in Seq(V) PROVE q \o t[n + 1] \in Seq(V)
      OBVIOUS
    <3>1. t[n + 1] \in Seq(V)
      BY <2>1, <2>2
    <3>. QED BY <3>1, ConcatProperties
  <2>4. PICK g \in [0..N -> Seq(V)] : Iterates(g, N, t[1], step)
    <3>1. t[1] \in Seq(V) /\ N \in Nat
      BY <2>1, <2>2
    <3> DEFINE S == Seq(V)
               a == t[1]
    <3>2. a \in S /\ step \in [1..N -> [S -> S]]
      BY <2>3, <3>1
    <3>. HIDE DEF step, N, S, a
    <3>3. \E g \in [0..N -> S] : Iterates(g, N, a, step)
      BY <3>1, <3>2, Recursion, Zenon
    <3>. QED BY <3>3 DEF S, a
  <2> DEFINE h == [i \in 1..Len(t) |-> g[i - 1]]
  <2>5. \A n \in 1..N : g[n - 1] \in Seq(V) /\ g[n] = g[n - 1] \o t[n + 1]
    <3> SUFFICES ASSUME NEW n \in 1..N PROVE g[n - 1] \in Seq(V) /\ g[n] = g[n - 1] \o t[n + 1]
      OBVIOUS
    <3>1. n - 1 \in 0..N
      BY <2>1
    <3>2. g[n - 1] \in Seq(V)
      BY <3>1
    <3>3. step[n][g[n - 1]] = g[n - 1] \o t[n + 1]
      BY <3>2
    <3>. QED BY <2>4, <3>1, <3>3 DEF Iterates
  <2>6. \A i \in 1..Len(t) : h[i] = IF i = 1 THEN t[i] ELSE h[i - 1] \o t[i]
    <3> SUFFICES ASSUME NEW i \in 1..Len(t) PROVE h[i] = IF i = 1 THEN t[i] ELSE h[i - 1] \o t[i]
      OBVIOUS
    <3>1. CASE i = 1
      BY <2>4, <3>1 DEF Iterates
    <3>2. CASE i # 1
      <4>1. i - 1 \in 1..N /\ i - 1 \in 1..Len(t) /\ (i - 1) + 1 = i
        BY <2>1, <3>2
      <4>2. g[i - 1] = g[(i - 1) - 1] \o t[i]
        BY <2>5, <4>1
      <4>. QED BY <3>2, <4>1, <4>2
    <3>. QED BY <3>1, <3>2
  <2>7. h = [i \in 1..Len(t) |-> IF i = 1 THEN t[i] ELSE h[i - 1] \o t[i]]
    <3>1. h = [i \in 1..Len(t) |-> h[i]]
      OBVIOUS
    <3>. HIDE DEF h
    <3>. QED BY <2>6, <3>1, Zenon
  <2>8. F = [i \in 1..Len(t) |-> IF i = 1 THEN t[i] ELSE F[i - 1] \o t[i]]
    <3>. HIDE DEF h
    <3>. QED BY <2>7, Zenon
  <2>. HIDE DEF F
  <2> DEFINE H == {n \in 0..N : F[n + 1] \in Seq(V)}
  <2>9. 0 \in H
    BY <2>1, <2>2, <2>8
  <2>10. ASSUME NEW n \in 1..N, n - 1 \in H PROVE n \in H
    <3>1. n + 1 \in 1..Len(t) /\ n + 1 # 1 /\ (n + 1) - 1 = (n - 1) + 1
      BY <2>1
    <3>2. F[n + 1] = F[(n + 1) - 1] \o t[n + 1]
      BY <2>8, <3>1, Zenon
    <3>3. F[(n + 1) - 1] \in Seq(V) /\ t[n + 1] \in Seq(V)
      BY <2>2, <2>10, <3>1
    <3>4. F[n + 1] \in Seq(V)
      BY <3>2, <3>3, ConcatProperties
    <3>. QED BY <2>1, <3>4
  <2>11. N \in H
    <3>. HIDE DEF H
    <3>1. 0..N \subseteq H
      BY <2>1, <2>9, <2>10, Induction
    <3>. QED BY <2>1, <3>1
  <2>12. F[Len(t)] \in Seq(V)
    BY <2>1, <2>11
  <2>13. FlattenSeq(t) = F[Len(t)]
    <3>1. Len(t) # 0
      BY <2>1
    <3>. QED BY <3>1, Zenon DEF FlattenSeq, F
  <2>. QED BY <1>2, <2>12, <2>13
<1>. QED BY <1>1, <1>2

\* The units of texts, and the bytes of a text, unit by unit.
Units(V) == [half : {"none", "high", "low"}, bytes : Seq(V)]

LEMMA EncodeFacts ==
    ASSUME NEW V, Replacement \in Seq(V), NEW t \in Seq(Units(V))
    PROVE  Encode(t) \in Seq(V) /\ (t = <<>> => Encode(t) = <<>>)
<1> DEFINE p == [i \in DOMAIN t |-> Spelled(t, i)]
<1>1. Len(t) \in Nat /\ DOMAIN t = 1..Len(t) /\ \A i \in 1..Len(t) : t[i] \in Units(V)
  BY ElementOfSeq
<1>2. ASSUME NEW i \in 1..Len(t) PROVE Spelled(t, i) \in Seq(V)
  <2>1. t[i].bytes \in Seq(V)
    BY <1>1, <1>2 DEF Units
  <2>. QED BY <2>1 DEF Spelled
<1>3. p \in Seq(Seq(V)) /\ Len(p) = Len(t)
  BY <1>1, <1>2
<1>4. t = <<>> => p = <<>>
  BY <1>1, <1>3, EmptySeq
<1>. HIDE DEF p
<1>5. FlattenSeq(p) \in Seq(V) /\ (p = <<>> => FlattenSeq(p) = <<>>)
  BY <1>3, FlattenFacts
<1>. QED BY <1>4, <1>5 DEF Encode, p

\* Of some numbers up to M there is a greatest one.
LEMMA Greatest ==
    ASSUME NEW M \in Nat, NEW S, S \subseteq 0..M, S # {}
    PROVE  \E n \in S : \A m \in S : m <= n
<1> SUFFICES ASSUME \A n \in S : \E m \in S : ~(m <= n) PROVE FALSE
  OBVIOUS
<1> DEFINE G == {n \in 0..M : \E m \in S : n <= m}
<1>1. 0 \in G
  <2>1. PICK m \in S : TRUE
    OBVIOUS
  <2>2. m \in 0..M /\ 0 <= m /\ 0 \in 0..M
    BY <2>1
  <2>. QED BY <2>2
<1>2. ASSUME NEW n \in 1..M, n - 1 \in G PROVE n \in G
  <2>1. PICK m \in S : n - 1 <= m
    BY <1>2
  <2>2. PICK l \in S : ~(l <= m)
    OBVIOUS
  <2>3. l \in 0..M /\ m \in 0..M
    OBVIOUS
  <2>4. n <= l /\ n \in 0..M
    BY <2>1, <2>2, <2>3
  <2>. QED BY <2>4
<1>3. M \in G
  <2>. HIDE DEF G
  <2>1. 0..M \subseteq G
    BY <1>1, <1>2, Induction
  <2>. QED BY <2>1
<1>. QED BY <1>3

\* What a writer holds, and that it got some bytes from one step to another, if it still holds all it was given.
Writers(V) == [bytes : Seq(V), fits : BOOLEAN]
Got(w, x, b) ==
    x.fits =>
        /\ w.fits /\ Len(x.bytes) = Len(w.bytes) + Len(b)
        /\ \A i \in 1..Len(w.bytes) : x.bytes[i] = w.bytes[i]
        /\ \A i \in 1..Len(b) : x.bytes[Len(w.bytes) + i] = b[i]

LEMMA PushFacts ==
    ASSUME NEW V, NEW w \in Writers(V), NEW b \in Seq(V)
    PROVE  PushRaw(w, b) \in Writers(V) /\ Got(w, PushRaw(w, b), b)
<1>1. w.bytes \in Seq(V) /\ w.fits \in BOOLEAN /\ Len(w.bytes) \in Nat /\ Len(b) \in Nat
  BY DEF Writers
<1> DEFINE s == w.bytes \o b
<1>2. /\ s \in Seq(V) /\ Len(s) = Len(w.bytes) + Len(b)
      /\ \A i \in 1..Len(w.bytes) + Len(b) : s[i] = IF i <= Len(w.bytes) THEN w.bytes[i] ELSE b[i - Len(w.bytes)]
  BY <1>1, ConcatProperties
<1>3. \A i \in 1..Len(b) : s[Len(w.bytes) + i] = b[i]
  <2> SUFFICES ASSUME NEW i \in 1..Len(b) PROVE s[Len(w.bytes) + i] = b[i]
    OBVIOUS
  <2>1. Len(w.bytes) + i \in 1..Len(w.bytes) + Len(b) /\ ~(Len(w.bytes) + i <= Len(w.bytes))
        /\ (Len(w.bytes) + i) - Len(w.bytes) = i
    BY <1>1
  <2>. QED BY <1>2, <2>1
<1>4. \A i \in 1..Len(w.bytes) : s[i] = w.bytes[i]
  BY <1>1, <1>2
<1>. HIDE DEF s
<1>5. CASE w.fits /\ Len(w.bytes) + Len(b) <= Capacity
  <2>1. PushRaw(w, b) = [w EXCEPT !.bytes = s]
    BY <1>5 DEF PushRaw, s
  <2>2. PushRaw(w, b) \in Writers(V) /\ PushRaw(w, b).bytes = s
    BY <1>1, <1>2, <2>1 DEF Writers
  <2>. QED BY <1>2, <1>3, <1>4, <1>5, <2>2 DEF Got
<1>6. CASE ~(w.fits /\ Len(w.bytes) + Len(b) <= Capacity)
  <2>1. PushRaw(w, b) = [w EXCEPT !.fits = FALSE]
    BY <1>6 DEF PushRaw
  <2>2. PushRaw(w, b) \in Writers(V) /\ ~PushRaw(w, b).fits
    BY <1>1, <2>1 DEF Writers
  <2>. QED BY <2>2 DEF Got
<1>. QED BY <1>5, <1>6

\* One byte that can tell v.
LEMMA PushByteFacts ==
    ASSUME NEW V, Nat \subseteq V, Byte \in Nat, NEW w \in Writers(V), NEW v \in 0..Byte - 1
    PROVE  LET x == PushU8(w, v)
           IN  /\ x \in Writers(V)
               /\ x.fits => /\ w.fits /\ Len(x.bytes) = Len(w.bytes) + 1 /\ x.bytes[Len(w.bytes) + 1] = v
                            /\ \A i \in 1..Len(w.bytes) : x.bytes[i] = w.bytes[i]
<1>1. v % Byte = v /\ v \in V
  OBVIOUS
<1>2. <<v>> \in Seq(V) /\ Len(<<v>>) = 1 /\ <<v>>[1] = v
  BY <1>1
<1>3. PushU8(w, v) = PushRaw(w, <<v>>)
  BY <1>1 DEF PushU8
<1>4. PushRaw(w, <<v>>) \in Writers(V) /\ Got(w, PushRaw(w, <<v>>), <<v>>)
  BY <1>2, PushFacts
<1>. QED BY <1>2, <1>3, <1>4 DEF Got

LEMMA ShutFacts == ASSUME NEW V PROVE Shut(<<>>) \in Writers(V) /\ Shut(<<>>).fits /\ Shut(<<>>).bytes = <<>> /\ Len(Shut(<<>>).bytes) = 0
<1>1. <<>> \in Seq(V)
  BY EmptySeq
<1>. QED BY <1>1 DEF Shut, Writers
-----------------------------------------------------------------------------
(* Bodies of one thing.                                                    *)

\* What a device is told to show is no longer than its length can tell.
LEMMA ClippedFacts ==
    ASSUME NEW V, Replacement \in Seq(V), NEW t \in Seq(Units(V)), MaxText \in Nat, MaxTextBytes \in Nat
    PROVE  Encode(Clipped(t)) \in Seq(V) /\ Len(Encode(Clipped(t))) \in 0..MaxTextBytes
<1> DEFINE M == Least(MaxText, Len(t))
           fitting == {n \in 0..M : Len(Encode(SubSeq(t, 1, n))) <= MaxTextBytes}
           n0 == CHOOSE n \in fitting : \A m \in fitting : m <= n
<1>1. Len(t) \in Nat /\ M \in Nat /\ M <= Len(t)
  BY DEF Least
<1>2. 0 \in fitting
  <2>1. SubSeq(t, 1, 0) \in Seq(Units(V)) /\ SubSeq(t, 1, 0) = <<>>
    BY SubSeqEmpty, EmptySeq
  <2>2. Encode(SubSeq(t, 1, 0)) = <<>>
    BY <2>1, EncodeFacts
  <2>. QED BY <1>1, <2>2, EmptySeq
<1>3. n0 \in fitting
  <2>1. fitting \subseteq 0..M /\ fitting # {}
    BY <1>2
  <2>. HIDE DEF fitting, M
  <2>2. \E n \in fitting : \A m \in fitting : m <= n
    BY <1>1, <2>1, Greatest
  <2>. QED BY <2>2
<1>4. Clipped(t) = SubSeq(t, 1, n0)
  BY DEF Clipped
<1>5. n0 \in 0..Len(t) /\ Len(Encode(SubSeq(t, 1, n0))) <= MaxTextBytes
  BY <1>1, <1>3
<1>6. SubSeq(t, 1, n0) \in Seq(Units(V))
  <2>. HIDE DEF n0
  <2>. QED BY <1>5, CutFacts
<1>7. Encode(Clipped(t)) \in Seq(V)
  BY <1>4, <1>6, EncodeFacts
<1>. QED BY <1>4, <1>5, <1>7

\* The two bytes in front of some others, and what is read of them as far as they arrive.
LEMMA CountedArrives ==
    ASSUME NEW V, NEW s \in Seq(V), NEW b \in Seq(V), Len(s) = 2 + Len(b), s[1] = 1, s[2] = Len(b),
           \A i \in 1..Len(b) : s[2 + i] = b[i]
    PROVE  \A n \in 0..Len(s) : ReadCounted(SubSeq(s, 1, n)) = IF n = Len(s) THEN <<1, b>> ELSE None
<1> SUFFICES ASSUME NEW n \in 0..Len(s)
             PROVE  ReadCounted(SubSeq(s, 1, n)) = IF n = Len(s) THEN <<1, b>> ELSE None
  OBVIOUS
<1> DEFINE x == SubSeq(s, 1, n)
<1>1. Len(b) \in Nat /\ Len(s) \in Nat /\ n \in Nat
  OBVIOUS
<1>2. x \in Seq(V) /\ Len(x) = n /\ \A i \in 1..n : x[i] = s[i]
  <2>1. /\ x \in Seq(V) /\ Len(x) = IF 1 <= n THEN n - 1 + 1 ELSE 0
        /\ \A i \in 1..n - 1 + 1 : x[i] = s[1 + i - 1]
    BY CutFacts
  <2>. QED BY <1>1, <2>1
<1>. HIDE DEF x
<1>3. CASE n < 2
  BY <1>1, <1>2, <1>3 DEF ReadCounted, x
<1>4. CASE n >= 2
  <2>1. x[1] = 1 /\ x[2] = Len(b)
    BY <1>1, <1>2, <1>4
  <2>2. CASE n # Len(s)
    <3>1. Len(x) < 2 + x[2]
      BY <1>1, <1>2, <2>1, <2>2
    <3>. QED BY <2>2, <3>1 DEF ReadCounted, x
  <2>3. CASE n = Len(s)
    <3>1. Cut(x, 3, Len(b)) = b
      <4>1. /\ SubSeq(x, 3, 2 + Len(b)) \in Seq(V)
            /\ Len(SubSeq(x, 3, 2 + Len(b))) = IF 3 <= 2 + Len(b) THEN (2 + Len(b)) - 3 + 1 ELSE 0
            /\ \A i \in 1..(2 + Len(b)) - 3 + 1 : SubSeq(x, 3, 2 + Len(b))[i] = x[3 + i - 1]
        BY <1>1, <1>2, <2>3, CutFacts
      <4> DEFINE c == SubSeq(x, 3, 2 + Len(b))
      <4>. HIDE DEF c
      <4>2. c \in Seq(V) /\ Len(c) = Len(b)
        BY <1>1, <4>1 DEF c
      <4>3. ASSUME NEW i \in 1..Len(c) PROVE c[i] = b[i]
        <5>1. c[i] = x[2 + i]
          BY <1>1, <4>1, <4>2 DEF c
        <5>2. 2 + i \in 1..n
          BY <1>1, <2>3, <4>2
        <5>. QED BY <1>2, <4>2, <5>1, <5>2
      <4>4. c = b
        BY <4>2, <4>3, SeqEqual
      <4>5. 3 + Len(b) - 1 = 2 + Len(b)
        BY <1>1
      <4>. QED BY <4>4, <4>5 DEF Cut, c
    <3>2. ~(Len(x) < 2 \/ Len(x) < 2 + x[2])
      BY <1>1, <1>2, <2>1, <2>3
    <3>. QED BY <2>1, <2>3, <3>1, <3>2 DEF ReadCounted, x
  <2>. QED BY <2>2, <2>3
<1>. QED BY <1>1, <1>3, <1>4

LEMMA CountedFacts ==
    ASSUME NEW V, Nat \subseteq V, Byte \in Nat, Byte > 1, NEW b \in Seq(V)
    PROVE  LET s == Sent(PushRaw(PushRaw(PushU8(Shut(<<>>), 1), <<Len(b)>>), b))
           IN  s # None => \A n \in 0..Len(s) : ReadCounted(SubSeq(s, 1, n)) = IF n = Len(s) THEN <<1, b>> ELSE None
<1> DEFINE w0 == Shut(<<>>)
           w1 == PushU8(w0, 1)
           w2 == PushRaw(w1, <<Len(b)>>)
           w3 == PushRaw(w2, b)
<1>1. w0 \in Writers(V) /\ Len(w0.bytes) = 0
  BY ShutFacts
<1>2. w1 \in Writers(V) /\ (w1.fits => Len(w1.bytes) = 1 /\ w1.bytes[1] = 1)
  <2>1. 1 \in 0..Byte - 1
    OBVIOUS
  <2>. HIDE DEF w0, w1
  <2>2. /\ PushU8(w0, 1) \in Writers(V)
        /\ PushU8(w0, 1).fits => /\ Len(PushU8(w0, 1).bytes) = Len(w0.bytes) + 1
                                 /\ PushU8(w0, 1).bytes[Len(w0.bytes) + 1] = 1
    <3> DEFINE v == 1
    <3>1. v \in 0..Byte - 1
      BY <2>1
    <3>. HIDE DEF v
    <3>2. /\ PushU8(w0, v) \in Writers(V)
          /\ PushU8(w0, v).fits => /\ Len(PushU8(w0, v).bytes) = Len(w0.bytes) + 1
                                   /\ PushU8(w0, v).bytes[Len(w0.bytes) + 1] = v
      BY <1>1, <3>1, PushByteFacts, ZenonT(60)
    <3>. QED BY <3>2 DEF v
  <2>3. Len(w0.bytes) + 1 = 1
    BY <1>1
  <2>. QED BY <2>2, <2>3 DEF w1
<1>3. Len(b) \in Nat /\ <<Len(b)>> \in Seq(V) /\ Len(<<Len(b)>>) = 1 /\ <<Len(b)>>[1] = Len(b)
  OBVIOUS
<1>. HIDE DEF w1
<1>4. w2 \in Writers(V) /\ Got(w1, w2, <<Len(b)>>)
  BY <1>2, <1>3, PushFacts
<1>. HIDE DEF w2
<1>5. w3 \in Writers(V) /\ Got(w2, w3, b)
  BY <1>4, PushFacts
<1>. HIDE DEF w3
<1>6. Sent(w3) = IF w3.fits THEN w3.bytes ELSE None
  BY DEF Sent
<1>7. CASE w3.fits
  <2> DEFINE s == w3.bytes
  <2>1. s \in Seq(V)
    BY <1>5 DEF Writers
  <2>2. w2.fits /\ Len(w2.bytes) = 2 /\ w2.bytes[1] = 1 /\ w2.bytes[2] = Len(b)
    <3> DEFINE l == <<Len(b)>>
    <3>. HIDE DEF l
    <3>1. w2.fits
      BY <1>5, <1>7 DEF Got
    <3>2. /\ w1.fits /\ Len(w2.bytes) = Len(w1.bytes) + Len(l)
          /\ \A i \in 1..Len(w1.bytes) : w2.bytes[i] = w1.bytes[i]
          /\ \A i \in 1..Len(l) : w2.bytes[Len(w1.bytes) + i] = l[i]
      BY <1>4, <3>1 DEF Got, l
    <3>3. Len(l) = 1 /\ l[1] = Len(b) /\ Len(w1.bytes) = 1 /\ w1.bytes[1] = 1
      BY <1>2, <1>3, <3>2 DEF l
    <3>. QED BY <3>1, <3>2, <3>3
  <2>3. Len(s) = 2 + Len(b) /\ s[1] = 1 /\ s[2] = Len(b) /\ \A i \in 1..Len(b) : s[2 + i] = b[i]
    BY <1>5, <1>7, <2>2 DEF Got
  <2>. HIDE DEF s
  <2>4. \A n \in 0..Len(s) : ReadCounted(SubSeq(s, 1, n)) = IF n = Len(s) THEN <<1, b>> ELSE None
    BY <2>1, <2>3, CountedArrives
  <2>. QED BY <1>6, <1>7, <2>4 DEF s, w3, w2, w1
<1>8. CASE ~w3.fits
  BY <1>6, <1>8 DEF w3, w2, w1
<1>. QED BY <1>7, <1>8

\* A byte tells the ids of as many devices as a roster may have, and the length of every text that is cut to it.
WireTypes(V) ==
    /\ {Byte, Capacity, MaxDetail, MaxText, MaxTextBytes, MaxDevices} \subseteq Nat
    /\ Byte > 1 /\ MaxTextBytes < Byte /\ MaxDevices < Byte /\ Nat \subseteq V
    /\ Texts \subseteq Seq(Units(V)) /\ Names \subseteq Seq(V) /\ Replacement \in Seq(V)
    /\ Entries \subseteq
        [deviceId : 0..Byte - 1, status : 0..Byte - 1, model : {m \in Seq(V) : Len(m) < Byte}, detail : Seq(Units(V)),
         placement : {None} \cup {<<p>> : p \in [deviceId : 0..Byte - 1, flags : 0..Byte - 1, pose : V]}]

\* A text, a message and a model's name that fit are read as they were written, and only when all of them is there.
LEMMA LettersFacts == ASSUME NEW V, WireTypes(V) PROVE LettersArrive
<1>0. Byte \in Nat /\ Byte > 1 /\ Nat \subseteq V /\ MaxText \in Nat /\ MaxTextBytes \in Nat /\ MaxTextBytes < Byte
  BY DEF WireTypes
<1>1. ASSUME NEW t \in Texts PROVE Arrives(WriteDeviceText(1, t), ReadDeviceText, <<1, Encode(Clipped(t))>>)
  <2> DEFINE b == Encode(Clipped(t))
             s == Sent(PushRaw(PushRaw(PushU8(Shut(<<>>), 1), <<Len(b)>>), b))
  <2>1. b \in Seq(V) /\ Len(b) \in 0..MaxTextBytes
    BY <1>0, <1>1, ClippedFacts DEF WireTypes
  <2>. HIDE DEF b
  <2>2. PushU8(PushU8(Shut(<<>>), 1), Len(b)) = PushRaw(PushU8(Shut(<<>>), 1), <<Len(b)>>)
    <3>1. Len(b) % Byte = Len(b)
      BY <1>0, <2>1
    <3>. QED BY <3>1 DEF PushU8
  <2>3. WriteDeviceText(1, t) = s
    BY <2>2 DEF WriteDeviceText, b
  <2>4. s # None => \A n \in 0..Len(s) : ReadCounted(SubSeq(s, 1, n)) = IF n = Len(s) THEN <<1, b>> ELSE None
    BY <1>0, <2>1, CountedFacts
  <2>. HIDE DEF s
  <2>. QED BY <2>3, <2>4 DEF Arrives, ReadDeviceText, b
<1>2. ASSUME NEW t \in Texts PROVE Arrives(WriteSysEx(1, Encode(t)), ReadSysEx, <<1, Encode(t)>>)
  <2> DEFINE b == Encode(t)
             s == Sent(PushRaw(PushRaw(PushU8(Shut(<<>>), 1), <<Len(b)>>), b))
  <2>1. b \in Seq(V)
    BY <1>2, EncodeFacts DEF WireTypes
  <2>. HIDE DEF b
  <2>2. WriteSysEx(1, b) = s
    BY DEF WriteSysEx, PushU16
  <2>3. s # None => \A n \in 0..Len(s) : ReadCounted(SubSeq(s, 1, n)) = IF n = Len(s) THEN <<1, b>> ELSE None
    BY <1>0, <2>1, CountedFacts
  <2>. HIDE DEF s
  <2>. QED BY <2>2, <2>3 DEF Arrives, ReadSysEx, b
<1>3. ASSUME NEW m \in Names
      PROVE  Arrives(WriteDeviceAdd(1, m), ReadDeviceAdd, IF IsValidModelName(m) THEN <<1, m>> ELSE None)
  <2> DEFINE s == Sent(PushRaw(PushRaw(PushU8(Shut(<<>>), 1), <<Len(m)>>), m))
  <2>1. m \in Seq(V) /\ Len(m) \in Nat
    BY <1>3 DEF WireTypes
  <2>2. CASE Len(m) >= Byte
    BY <2>2 DEF Arrives, WriteDeviceAdd
  <2>3. CASE ~(Len(m) >= Byte)
    <3>1. PushU8(PushU8(Shut(<<>>), 1), Len(m)) = PushRaw(PushU8(Shut(<<>>), 1), <<Len(m)>>)
      <4>1. Len(m) % Byte = Len(m)
        BY <1>0, <2>1, <2>3
      <4>. QED BY <4>1 DEF PushU8
    <3>2. WriteDeviceAdd(1, m) = s
      BY <2>3, <3>1 DEF WriteDeviceAdd
    <3>3. s # None => \A n \in 0..Len(s) : ReadCounted(SubSeq(s, 1, n)) = IF n = Len(s) THEN <<1, m>> ELSE None
      BY <1>0, <2>1, CountedFacts
    <3>. HIDE DEF s
    <3>4. ASSUME s # None, NEW n \in 0..Len(s)
          PROVE  ReadDeviceAdd(SubSeq(s, 1, n)) = IF n = Len(s) THEN IF IsValidModelName(m) THEN <<1, m>> ELSE None ELSE None
      <4>1. <<1, m>> # <<>> /\ <<1, m>>[2] = m
        OBVIOUS
      <4>2. CASE n = Len(s)
        BY <3>3, <3>4, <4>1, <4>2 DEF ReadDeviceAdd, None
      <4>3. CASE n # Len(s)
        BY <3>3, <3>4, <4>3 DEF ReadDeviceAdd
      <4>. QED BY <4>2, <4>3
    <3>. QED BY <3>2, <3>4 DEF Arrives
  <2>. QED BY <2>2, <2>3
<1>. QED BY <1>1, <1>2, <1>3 DEF LettersArrive
-----------------------------------------------------------------------------
(* The roster.                                                             *)

\* An entry of a roster, the text it is written with, how many bytes it takes, and that it is in a body after o bytes.
Wirable(V, e) ==
    /\ e = [deviceId |-> e.deviceId, status |-> e.status, model |-> e.model, detail |-> e.detail, placement |-> e.placement]
    /\ e.deviceId \in 0..Byte - 1 /\ e.status \in 0..Byte - 1
    /\ e.model \in Seq(V) /\ Len(e.model) < Byte /\ e.detail \in Seq(Units(V)) /\ Replacement \in Seq(V)
    /\ e.placement # None =>
        \E p \in [deviceId : 0..Byte - 1, flags : 0..Byte - 1, pose : V] : e.placement = <<p>>
Detail(e) == Encode(SubSeq(e.detail, 1, Least(MaxDetail, Len(e.detail))))
SizeOf(e) == 5 + Len(e.model) + Len(Detail(e)) + (IF e.placement = None THEN 0 ELSE PlacementBytes)
Says(b, o, e) ==
    LET a == Len(e.model)
        d == Len(Detail(e))
    IN  /\ b[o + 1] = e.deviceId /\ b[o + 2] = e.status /\ b[o + 3] = a
        /\ \A i \in 1..a : b[o + 3 + i] = e.model[i]
        /\ b[o + 4 + a] = d
        /\ \A i \in 1..d : b[o + 4 + a + i] = Detail(e)[i]
        /\ b[o + 5 + a + d] = IF e.placement = None THEN 0 ELSE 1
        /\ e.placement # None =>
            /\ b[o + 6 + a + d] = e.placement[1].deviceId /\ b[o + 7 + a + d] = e.placement[1].flags
            /\ b[o + 8 + a + d] = e.placement[1].pose

FrontOf(w, e) ==
    LET named == PushRaw(PushU8(PushU8(PushU8(w, e.deviceId), e.status), Len(e.model)), e.model)
    IN  PushRaw(PushU8(named, Len(Detail(e))), Detail(e))

Opens(w, x, e) ==
    LET o == Len(w.bytes)
        a == Len(e.model)
        d == Len(Detail(e))
    IN  x.fits =>
            /\ w.fits /\ Len(x.bytes) = o + 4 + a + d
            /\ \A i \in 1..o : x.bytes[i] = w.bytes[i]
            /\ x.bytes[o + 1] = e.deviceId /\ x.bytes[o + 2] = e.status /\ x.bytes[o + 3] = a
            /\ \A i \in 1..a : x.bytes[o + 3 + i] = e.model[i]
            /\ x.bytes[o + 4 + a] = d
            /\ \A i \in 1..d : x.bytes[o + 4 + a + i] = Detail(e)[i]

LEMMA DetailFacts ==
    ASSUME NEW V, MaxDetail \in Nat, NEW e, Wirable(V, e)
    PROVE  Detail(e) \in Seq(V) /\ Len(Detail(e)) \in Nat /\ Len(e.model) \in Nat
<1>1. Least(MaxDetail, Len(e.detail)) \in 0..Len(e.detail) /\ Len(e.model) \in Nat /\ e.detail \in Seq(Units(V)) /\ Replacement \in Seq(V)
  BY DEF Wirable, Least
<1> DEFINE n == Least(MaxDetail, Len(e.detail))
<1>. HIDE DEF n
<1>2. SubSeq(e.detail, 1, n) \in Seq(Units(V))
  BY <1>1, CutFacts DEF n
<1>3. Detail(e) \in Seq(V)
  BY <1>1, <1>2, EncodeFacts DEF Detail, n
<1>. QED BY <1>1, <1>3

\* The front of an entry, up to whether it is placed.
LEMMA FrontWritten ==
    ASSUME NEW V, Nat \subseteq V, Byte \in Nat, MaxDetail \in Nat, NEW w \in Writers(V), NEW e, Wirable(V, e), Tellable(e)
    PROVE  FrontOf(w, e) \in Writers(V) /\ Opens(w, FrontOf(w, e), e)
<1> DEFINE D == Detail(e)
           o == Len(w.bytes)
           a == Len(e.model)
           d == Len(D)
           w1 == PushU8(w, e.deviceId)
           w2 == PushU8(w1, e.status)
           w3 == PushU8(w2, a)
           w4 == PushRaw(w3, e.model)
           w5 == PushU8(w4, d)
           w6 == PushRaw(w5, D)
<1>1. /\ e.deviceId \in 0..Byte - 1 /\ e.status \in 0..Byte - 1 /\ a \in 0..Byte - 1 /\ d \in 0..Byte - 1
      /\ D \in Seq(V) /\ e.model \in Seq(V) /\ o \in Nat /\ a \in Nat /\ d \in Nat
  <2>1. D \in Seq(V) /\ d \in Nat /\ a \in Nat
    BY DetailFacts
  <2>2. d < Byte
    BY DEF Tellable, Detail
  <2>3. o \in Nat
    BY DEF Writers
  <2>. QED BY <2>1, <2>2, <2>3 DEF Wirable
<1>. HIDE DEF D, a, d, o
<1>2. /\ w1 \in Writers(V)
      /\ w1.fits => /\ w.fits /\ Len(w1.bytes) = o + 1 /\ w1.bytes[o + 1] = e.deviceId
                    /\ \A i \in 1..o : w1.bytes[i] = w.bytes[i]
  BY <1>1, PushByteFacts DEF o
<1>. HIDE DEF w1
<1>3. /\ w2 \in Writers(V)
      /\ w2.fits => /\ w1.fits /\ Len(w2.bytes) = o + 2 /\ w2.bytes[o + 2] = e.status
                    /\ \A i \in 1..o + 1 : w2.bytes[i] = w1.bytes[i]
  <2>1. /\ w2 \in Writers(V)
        /\ w2.fits => /\ w1.fits /\ Len(w2.bytes) = Len(w1.bytes) + 1 /\ w2.bytes[Len(w1.bytes) + 1] = e.status
                      /\ \A i \in 1..Len(w1.bytes) : w2.bytes[i] = w1.bytes[i]
    BY <1>1, <1>2, PushByteFacts
  <2>2. w2.fits => Len(w1.bytes) = o + 1 /\ Len(w1.bytes) + 1 = o + 2
    BY <1>1, <1>2, <2>1
  <2>. QED BY <2>1, <2>2
<1>. HIDE DEF w2
<1>4. /\ w3 \in Writers(V)
      /\ w3.fits => /\ w2.fits /\ Len(w3.bytes) = o + 3 /\ w3.bytes[o + 3] = a
                    /\ \A i \in 1..o + 2 : w3.bytes[i] = w2.bytes[i]
  <2>1. /\ w3 \in Writers(V)
        /\ w3.fits => /\ w2.fits /\ Len(w3.bytes) = Len(w2.bytes) + 1 /\ w3.bytes[Len(w2.bytes) + 1] = a
                      /\ \A i \in 1..Len(w2.bytes) : w3.bytes[i] = w2.bytes[i]
    BY <1>1, <1>3, PushByteFacts
  <2>2. w3.fits => Len(w2.bytes) = o + 2 /\ Len(w2.bytes) + 1 = o + 3
    BY <1>1, <1>3, <2>1
  <2>. QED BY <2>1, <2>2
<1>. HIDE DEF w3
<1>5. /\ w4 \in Writers(V)
      /\ w4.fits => /\ w3.fits /\ Len(w4.bytes) = o + 3 + a
                    /\ \A i \in 1..o + 3 : w4.bytes[i] = w3.bytes[i]
                    /\ \A i \in 1..a : w4.bytes[o + 3 + i] = e.model[i]
  <2>1. w4 \in Writers(V) /\ Got(w3, w4, e.model)
    BY <1>1, <1>4, PushFacts
  <2>. QED BY <1>4, <2>1 DEF Got, a
<1>. HIDE DEF w4
<1>6. /\ w5 \in Writers(V)
      /\ w5.fits => /\ w4.fits /\ Len(w5.bytes) = o + 4 + a /\ w5.bytes[o + 4 + a] = d
                    /\ \A i \in 1..o + 3 + a : w5.bytes[i] = w4.bytes[i]
  <2>1. /\ w5 \in Writers(V)
        /\ w5.fits => /\ w4.fits /\ Len(w5.bytes) = Len(w4.bytes) + 1 /\ w5.bytes[Len(w4.bytes) + 1] = d
                      /\ \A i \in 1..Len(w4.bytes) : w5.bytes[i] = w4.bytes[i]
    BY <1>1, <1>5, PushByteFacts
  <2>2. o + 3 + a + 1 = o + 4 + a
    BY <1>1
  <2>3. w5.fits => Len(w4.bytes) = o + 3 + a /\ Len(w4.bytes) + 1 = o + 4 + a
    <3> DEFINE m == Len(w4.bytes)
               n == o + 3 + a
               k == o + 4 + a
    <3>1. n + 1 = k /\ (w5.fits => m = n)
      BY <1>5, <2>1, <2>2
    <3>. HIDE DEF m, n, k
    <3>2. w5.fits => m = n /\ m + 1 = k
      BY <3>1
    <3>. QED BY <3>2 DEF m, n, k
  <2>. QED BY <2>1, <2>3
<1>. HIDE DEF w5
<1>7. /\ w6 \in Writers(V)
      /\ w6.fits => /\ w5.fits /\ Len(w6.bytes) = o + 4 + a + d
                    /\ \A i \in 1..o + 4 + a : w6.bytes[i] = w5.bytes[i]
                    /\ \A i \in 1..d : w6.bytes[o + 4 + a + i] = D[i]
  <2>1. w6 \in Writers(V) /\ Got(w5, w6, D)
    BY <1>1, <1>6, PushFacts
  <2>. QED BY <1>6, <2>1 DEF Got, d
<1>. HIDE DEF w6
<1>8. ASSUME w6.fits
      PROVE  /\ w.fits /\ \A i \in 1..o : w6.bytes[i] = w.bytes[i]
             /\ w6.bytes[o + 1] = e.deviceId /\ w6.bytes[o + 2] = e.status /\ w6.bytes[o + 3] = a
             /\ \A i \in 1..a : w6.bytes[o + 3 + i] = e.model[i]
             /\ w6.bytes[o + 4 + a] = d
  <2>1. w5.fits /\ w4.fits /\ w3.fits /\ w2.fits /\ w1.fits /\ w.fits
    BY <1>2, <1>3, <1>4, <1>5, <1>6, <1>7, <1>8
  <2>2. \A i \in 1..o + 3 + a : w6.bytes[i] = w4.bytes[i]
    <3>1. \A i \in 1..o + 3 + a : i \in 1..o + 4 + a
      BY <1>1
    <3>. QED BY <1>6, <1>7, <1>8, <2>1, <3>1
  <2>3. \A i \in 1..o + 3 : w6.bytes[i] = w3.bytes[i]
    <3>1. \A i \in 1..o + 3 : i \in 1..o + 3 + a
      BY <1>1
    <3>. QED BY <1>5, <2>1, <2>2, <3>1
  <2>4. \A i \in 1..o + 2 : w6.bytes[i] = w2.bytes[i]
    <3>1. \A i \in 1..o + 2 : i \in 1..o + 3
      BY <1>1
    <3>. QED BY <1>4, <2>1, <2>3, <3>1
  <2>5. \A i \in 1..o + 1 : w6.bytes[i] = w1.bytes[i]
    <3>1. \A i \in 1..o + 1 : i \in 1..o + 2
      BY <1>1
    <3>. QED BY <1>3, <2>1, <2>4, <3>1
  <2>6. \A i \in 1..o : w6.bytes[i] = w.bytes[i]
    <3>1. \A i \in 1..o : i \in 1..o + 1
      BY <1>1
    <3>. QED BY <1>2, <2>1, <2>5, <3>1
  <2>7. o + 1 \in 1..o + 1 /\ o + 2 \in 1..o + 2 /\ o + 3 \in 1..o + 3 /\ o + 4 + a \in 1..o + 4 + a
        /\ \A i \in 1..a : o + 3 + i \in 1..o + 3 + a
    BY <1>1
  <2>8. w6.bytes[o + 1] = e.deviceId /\ w6.bytes[o + 2] = e.status /\ w6.bytes[o + 3] = a
    BY <1>2, <1>3, <1>4, <2>1, <2>3, <2>4, <2>5, <2>7
  <2>9. \A i \in 1..a : w6.bytes[o + 3 + i] = e.model[i]
    BY <1>5, <2>1, <2>2, <2>7
  <2>10. w6.bytes[o + 4 + a] = d
    BY <1>6, <1>7, <1>8, <2>1, <2>7
  <2>. QED BY <2>1, <2>6, <2>8, <2>9, <2>10
<1>. QED BY <1>7, <1>8 DEF FrontOf, Opens, w6, w5, w4, w3, w2, w1, D, d, a, o

\* An entry as WriteEntry() writes it.
LEMMA EntryWritten ==
    ASSUME NEW V, Nat \subseteq V, Byte \in Nat, Byte > 1, MaxDetail \in Nat,
           NEW w \in Writers(V), NEW e, Wirable(V, e), Tellable(e)
    PROVE  LET x == WriteEntry(w, e)
           IN  /\ x \in Writers(V)
               /\ x.fits => /\ w.fits /\ Len(x.bytes) = Len(w.bytes) + SizeOf(e)
                            /\ \A i \in 1..Len(w.bytes) : x.bytes[i] = w.bytes[i]
                            /\ Says(x.bytes, Len(w.bytes), e)
<1> DEFINE D == Detail(e)
           o == Len(w.bytes)
           a == Len(e.model)
           d == Len(D)
           s == FrontOf(w, e)
           x == WriteEntry(w, e)
<1>1. o \in Nat /\ a \in Nat /\ d \in Nat
  BY DetailFacts DEF Writers
<1>2. /\ s \in Writers(V)
      /\ s.fits => /\ w.fits /\ Len(s.bytes) = o + 4 + a + d
                   /\ \A i \in 1..o : s.bytes[i] = w.bytes[i]
                   /\ s.bytes[o + 1] = e.deviceId /\ s.bytes[o + 2] = e.status /\ s.bytes[o + 3] = a
                   /\ \A i \in 1..a : s.bytes[o + 3 + i] = e.model[i]
                   /\ s.bytes[o + 4 + a] = d
                   /\ \A i \in 1..d : s.bytes[o + 4 + a + i] = D[i]
  <2>1. s \in Writers(V) /\ Opens(w, s, e)
    BY FrontWritten
  <2>. QED BY <2>1 DEF Opens
<1>3. x = IF e.placement = None THEN PushU8(s, 0) ELSE WritePlacement(PushU8(s, 1), e.placement[1])
  BY DEF WriteEntry, Detail, FrontOf
<1>. HIDE DEF D, a, d, o, s, x
<1>4. ASSUME NEW f \in {0, 1}
      PROVE  /\ PushU8(s, f) \in Writers(V)
             /\ PushU8(s, f).fits => /\ s.fits /\ Len(PushU8(s, f).bytes) = o + 5 + a + d
                                     /\ PushU8(s, f).bytes[o + 5 + a + d] = f
                                     /\ \A i \in 1..o + 4 + a + d : PushU8(s, f).bytes[i] = s.bytes[i]
  <2> DEFINE y == PushU8(s, f)
  <2>1. f \in 0..Byte - 1
    OBVIOUS
  <2>2. /\ y \in Writers(V)
        /\ y.fits => /\ s.fits /\ Len(y.bytes) = Len(s.bytes) + 1 /\ y.bytes[Len(s.bytes) + 1] = f
                     /\ \A i \in 1..Len(s.bytes) : y.bytes[i] = s.bytes[i]
    BY <1>2, <2>1, PushByteFacts
  <2>. HIDE DEF y
  <2>3. y.fits => Len(s.bytes) = o + 4 + a + d /\ Len(s.bytes) + 1 = o + 5 + a + d
    <3> DEFINE m == Len(s.bytes)
               n == o + 4 + a + d
               k == o + 5 + a + d
    <3>1. n + 1 = k
      BY <1>1
    <3>2. y.fits => m = n
      BY <1>2, <2>2
    <3>. HIDE DEF m, n, k
    <3>3. y.fits => m = n /\ m + 1 = k
      BY <3>1, <3>2
    <3>. QED BY <3>3 DEF m, n, k
  <2>4. /\ y \in Writers(V)
        /\ y.fits => /\ s.fits /\ Len(y.bytes) = o + 5 + a + d /\ y.bytes[o + 5 + a + d] = f
                     /\ \A i \in 1..o + 4 + a + d : y.bytes[i] = s.bytes[i]
    BY <2>2, <2>3
  <2>. QED BY <2>4 DEF y
\* What the front says is said by all that has the front at its beginning.
<1>5. ASSUME NEW z, s.fits, \A i \in 1..o + 4 + a + d : z[i] = s.bytes[i]
      PROVE  /\ w.fits /\ \A i \in 1..o : z[i] = w.bytes[i]
             /\ z[o + 1] = e.deviceId /\ z[o + 2] = e.status /\ z[o + 3] = a
             /\ \A i \in 1..a : z[o + 3 + i] = e.model[i]
             /\ z[o + 4 + a] = d
             /\ \A i \in 1..d : z[o + 4 + a + i] = D[i]
  <2>1. /\ \A i \in 1..o : i \in 1..o + 4 + a + d
        /\ {o + 1, o + 2, o + 3, o + 4 + a} \subseteq 1..o + 4 + a + d
        /\ \A i \in 1..a : o + 3 + i \in 1..o + 4 + a + d
        /\ \A i \in 1..d : o + 4 + a + i \in 1..o + 4 + a + d
    BY <1>1
  <2>. QED BY <1>2, <1>5, <2>1, ZenonT(60)
<1>6. CASE e.placement = None
  <2> DEFINE y == PushU8(s, 0)
  <2>1. x = y
    BY <1>3, <1>6
  <2>2. /\ y \in Writers(V)
        /\ y.fits => /\ s.fits /\ Len(y.bytes) = o + 5 + a + d /\ y.bytes[o + 5 + a + d] = 0
                     /\ \A i \in 1..o + 4 + a + d : y.bytes[i] = s.bytes[i]
    BY <1>4
  <2>. HIDE DEF y
  <2>3. SizeOf(e) = 5 + a + d
    BY <1>1, <1>6 DEF SizeOf, a, d, D
  <2>4. o + SizeOf(e) = o + 5 + a + d
    BY <1>1, <2>3
  <2>5. ASSUME y.fits PROVE /\ w.fits /\ Len(y.bytes) = o + SizeOf(e)
                            /\ \A i \in 1..o : y.bytes[i] = w.bytes[i]
                            /\ Says(y.bytes, o, e)
    <3>1. s.fits /\ \A i \in 1..o + 4 + a + d : y.bytes[i] = s.bytes[i]
      BY <2>2, <2>5
    <3>2. /\ w.fits /\ \A i \in 1..o : y.bytes[i] = w.bytes[i]
          /\ y.bytes[o + 1] = e.deviceId /\ y.bytes[o + 2] = e.status /\ y.bytes[o + 3] = a
          /\ \A i \in 1..a : y.bytes[o + 3 + i] = e.model[i]
          /\ y.bytes[o + 4 + a] = d
          /\ \A i \in 1..d : y.bytes[o + 4 + a + i] = D[i]
      BY <3>1, <1>5
    <3>3. y.bytes[o + 5 + a + d] = 0 /\ Len(y.bytes) = o + SizeOf(e)
      BY <2>2, <2>4, <2>5
    <3>4. Says(y.bytes, o, e)
      BY <1>6, <3>2, <3>3 DEF Says, a, d, D
    <3>. QED BY <3>2, <3>3, <3>4
  <2>. QED BY <2>1, <2>2, <2>5 DEF x, o
<1>7. CASE e.placement # None
  <2>0. PICK p \in [deviceId : 0..Byte - 1, flags : 0..Byte - 1, pose : V] : e.placement = <<p>>
    BY <1>7 DEF Wirable
  <2> DEFINE y == PushU8(s, 1)
             y1 == PushU8(y, p.deviceId)
             y2 == PushU8(y1, p.flags)
             y3 == PushRaw(y2, <<p.pose>>)
             q == o + 5 + a + d
  <2>1. x = y3 /\ e.placement[1] = p /\ p.deviceId \in 0..Byte - 1 /\ p.flags \in 0..Byte - 1 /\ p.pose \in V
    BY <1>3, <1>7, <2>0 DEF WritePlacement
  <2>2. /\ y \in Writers(V)
        /\ y.fits => /\ s.fits /\ Len(y.bytes) = q /\ y.bytes[q] = 1
                     /\ \A i \in 1..o + 4 + a + d : y.bytes[i] = s.bytes[i]
    BY <1>4
  <2>3. q \in Nat /\ q = o + 4 + a + d + 1 /\ q >= 5
    BY <1>1
  <2>. HIDE DEF y, q
  <2>4. /\ y1 \in Writers(V)
        /\ y1.fits => /\ y.fits /\ Len(y1.bytes) = q + 1 /\ y1.bytes[q + 1] = p.deviceId
                      /\ \A i \in 1..q : y1.bytes[i] = y.bytes[i]
    <3>1. /\ y1 \in Writers(V)
          /\ y1.fits => /\ y.fits /\ Len(y1.bytes) = Len(y.bytes) + 1 /\ y1.bytes[Len(y.bytes) + 1] = p.deviceId
                        /\ \A i \in 1..Len(y.bytes) : y1.bytes[i] = y.bytes[i]
      BY <2>1, <2>2, PushByteFacts
    <3>. HIDE DEF y1
    <3>. QED BY <2>2, <3>1
  <2>. HIDE DEF y1
  <2>5. /\ y2 \in Writers(V)
        /\ y2.fits => /\ y1.fits /\ Len(y2.bytes) = q + 2 /\ y2.bytes[q + 2] = p.flags
                      /\ \A i \in 1..q + 1 : y2.bytes[i] = y1.bytes[i]
    <3>1. /\ y2 \in Writers(V)
          /\ y2.fits => /\ y1.fits /\ Len(y2.bytes) = Len(y1.bytes) + 1 /\ y2.bytes[Len(y1.bytes) + 1] = p.flags
                        /\ \A i \in 1..Len(y1.bytes) : y2.bytes[i] = y1.bytes[i]
      BY <2>1, <2>4, PushByteFacts
    <3>. HIDE DEF y2
    <3>2. y2.fits => Len(y1.bytes) = q + 1 /\ Len(y1.bytes) + 1 = q + 2
      BY <2>3, <2>4, <3>1
    <3>. QED BY <3>1, <3>2
  <2>. HIDE DEF y2
  <2>6. /\ y3 \in Writers(V)
        /\ y3.fits => /\ y2.fits /\ Len(y3.bytes) = q + 3 /\ y3.bytes[q + 3] = p.pose
                      /\ \A i \in 1..q + 2 : y3.bytes[i] = y2.bytes[i]
    <3> DEFINE l == <<p.pose>>
    <3>1. l \in Seq(V) /\ Len(l) = 1 /\ l[1] = p.pose
      BY <2>1
    <3>. HIDE DEF l
    <3>2. y3 \in Writers(V) /\ Got(y2, y3, l)
      BY <2>5, <3>1, PushFacts DEF l
    <3>. HIDE DEF y3
    <3>3. y3.fits => /\ y2.fits /\ Len(y3.bytes) = Len(y2.bytes) + 1 /\ y3.bytes[Len(y2.bytes) + 1] = p.pose
                     /\ \A i \in 1..Len(y2.bytes) : y3.bytes[i] = y2.bytes[i]
      BY <3>1, <3>2 DEF Got
    <3>4. y3.fits => Len(y2.bytes) = q + 2 /\ Len(y2.bytes) + 1 = q + 3
      BY <2>3, <2>5, <3>3
    <3>. QED BY <3>2, <3>3, <3>4
  <2>. HIDE DEF y3
  <2>7. SizeOf(e) = 8 + a + d /\ o + SizeOf(e) = q + 3
    <3>1. SizeOf(e) = 8 + a + d
      BY <1>1, <1>7 DEF SizeOf, PlacementBytes, a, d, D
    <3>. QED BY <1>1, <3>1 DEF q
  <2>8. ASSUME y3.fits PROVE /\ w.fits /\ Len(y3.bytes) = o + SizeOf(e)
                             /\ \A i \in 1..o : y3.bytes[i] = w.bytes[i]
                             /\ Says(y3.bytes, o, e)
    <3>1. y2.fits /\ y1.fits /\ y.fits /\ s.fits
      BY <2>2, <2>4, <2>5, <2>6, <2>8
    <3>2. /\ y3.bytes[q + 3] = p.pose /\ y3.bytes[q + 2] = p.flags /\ y3.bytes[q + 1] = p.deviceId /\ y3.bytes[q] = 1
          /\ \A i \in 1..o + 4 + a + d : y3.bytes[i] = s.bytes[i]
      <4>1. /\ q + 2 \in 1..q + 2 /\ q + 1 \in 1..q + 2 /\ q + 1 \in 1..q + 1 /\ q \in 1..q + 2 /\ q \in 1..q + 1 /\ q \in 1..q
            /\ \A i \in 1..o + 4 + a + d : i \in 1..q + 2 /\ i \in 1..q + 1 /\ i \in 1..q
        BY <1>1, <2>3
      <4>2. y3.bytes[q + 3] = p.pose /\ \A i \in 1..q + 2 : y3.bytes[i] = y2.bytes[i]
        BY <2>6, <2>8
      <4>3. y2.bytes[q + 2] = p.flags /\ \A i \in 1..q + 1 : y2.bytes[i] = y1.bytes[i]
        BY <2>5, <3>1
      <4>4. y1.bytes[q + 1] = p.deviceId /\ \A i \in 1..q : y1.bytes[i] = y.bytes[i]
        BY <2>4, <3>1
      <4>5. y.bytes[q] = 1 /\ \A i \in 1..o + 4 + a + d : y.bytes[i] = s.bytes[i]
        BY <2>2, <3>1
      <4> DEFINE n == o + 4 + a + d
      <4>. HIDE DEF n
      <4>. QED BY <4>1, <4>2, <4>3, <4>4, <4>5 DEF n
    <3>3. /\ w.fits /\ \A i \in 1..o : y3.bytes[i] = w.bytes[i]
          /\ y3.bytes[o + 1] = e.deviceId /\ y3.bytes[o + 2] = e.status /\ y3.bytes[o + 3] = a
          /\ \A i \in 1..a : y3.bytes[o + 3 + i] = e.model[i]
          /\ y3.bytes[o + 4 + a] = d
          /\ \A i \in 1..d : y3.bytes[o + 4 + a + i] = D[i]
      BY <1>5, <3>1, <3>2
    <3>4. q = o + 5 + a + d /\ q + 1 = o + 6 + a + d /\ q + 2 = o + 7 + a + d /\ q + 3 = o + 8 + a + d
      BY <1>1 DEF q
    <3>5. Says(y3.bytes, o, e)
      BY <1>7, <2>1, <3>2, <3>3, <3>4 DEF Says, a, d, D
    <3>6. Len(y3.bytes) = o + SizeOf(e)
      BY <2>6, <2>7, <2>8
    <3>. QED BY <3>3, <3>5, <3>6
  <2>. QED BY <2>1, <2>6, <2>8 DEF x, o
<1>. QED BY <1>6, <1>7

LEMMA CutIs ==
    ASSUME NEW V, NEW x \in Seq(V), NEW c \in Seq(V), NEW f \in Nat \ {0}, f + Len(c) - 1 <= Len(x),
           \A i \in 1..Len(c) : x[f - 1 + i] = c[i]
    PROVE  Cut(x, f, Len(c)) = c
<1> DEFINE n == f + Len(c) - 1
           y == SubSeq(x, f, n)
<1>1. Len(c) \in Nat /\ Len(x) \in Nat /\ n \in 0..Len(x) /\ n - f + 1 = Len(c) /\ (f <= n <=> Len(c) > 0)
  OBVIOUS
<1>. HIDE DEF n
<1>2. y \in Seq(V) /\ Len(y) = IF f <= n THEN n - f + 1 ELSE 0
  BY <1>1, CutFacts
<1>3. \A i \in 1..n - f + 1 : y[i] = x[f + i - 1]
  BY <1>1, CutFacts
<1>. HIDE DEF y
<1>4. Len(y) = Len(c)
  BY <1>1, <1>2
<1>5. ASSUME NEW i \in 1..Len(y) PROVE y[i] = c[i]
  <2>1. i \in 1..Len(c) /\ i \in 1..n - f + 1 /\ f + i - 1 = f - 1 + i
    BY <1>1, <1>4, <1>5
  <2>. QED BY <1>3, <2>1
<1>6. y = c
  BY <1>2, <1>4, <1>5, SeqEqual
<1>. QED BY <1>6 DEF Cut, y, n

\* x is what a body that ends at m has after o bytes, where e is: e is read if all of it is there.
ReadsAs(V, x, e, o, m) ==
    /\ x \in Seq(V) /\ Len(x) = m - o
    /\ Readable(x) <=> o + SizeOf(e) <= m
    /\ Readable(x) => EndOf(x) = SizeOf(e) /\ EntryOf(x) = AsTold(e)

\* An entry of a body that ends at m is read if all of it is there, and is then what was told.
LEMMA EntryRead ==
    ASSUME NEW V, Nat \subseteq V, MaxDetail \in Nat, NEW e, Wirable(V, e), NEW s \in Seq(V), NEW o \in Nat,
           Says(s, o, e), NEW m \in o..Len(s)
    PROVE  ReadsAs(V, SubSeq(s, o + 1, m), e, o, m)
<1> DEFINE x == SubSeq(s, o + 1, m)
           D == Detail(e)
           a == Len(e.model)
           d == Len(D)
           flag == IF e.placement = None THEN 0 ELSE 1
<1>1. D \in Seq(V) /\ e.model \in Seq(V) /\ a \in Nat /\ d \in Nat
  BY DetailFacts DEF Wirable
<1>. HIDE DEF D, a, d
<1>2. x \in Seq(V) /\ Len(x) = m - o /\ \A i \in 1..m - o : x[i] = s[o + i]
  <2>1. Len(s) \in Nat /\ m \in 0..Len(s) /\ o + 1 \in Nat \ {0}
    OBVIOUS
  <2>2. /\ x \in Seq(V) /\ Len(x) = IF o + 1 <= m THEN m - (o + 1) + 1 ELSE 0
        /\ \A i \in 1..m - (o + 1) + 1 : x[i] = s[o + 1 + i - 1]
    BY <2>1, CutFacts
  <2>3. m - (o + 1) + 1 = m - o /\ \A i \in 1..m - o : o + 1 + i - 1 = o + i
    BY <2>1
  <2>4. Len(x) = m - o
    BY <2>1, <2>2
  <2>. HIDE DEF x
  <2>. QED BY <2>2, <2>3, <2>4
<1> DEFINE l == m - o
<1>3. SizeOf(e) = 5 + a + d + (IF flag = 1 THEN PlacementBytes ELSE 0) /\ flag \in {0, 1}
  BY <1>1 DEF SizeOf, PlacementBytes, a, d, D
<1>4. l \in Nat /\ (o + SizeOf(e) <= m <=> SizeOf(e) <= l)
  <2>1. SizeOf(e) \in Nat
    BY <1>1, <1>3 DEF PlacementBytes
  <2>. QED BY <2>1
<1>5. /\ 1 <= l => x[1] = e.deviceId
      /\ 2 <= l => x[2] = e.status
      /\ 3 <= l => x[3] = a
      /\ \A i \in 1..a : 3 + i <= l => x[3 + i] = e.model[i]
      /\ 4 + a <= l => x[4 + a] = d
      /\ \A i \in 1..d : 4 + a + i <= l => x[4 + a + i] = D[i]
      /\ 5 + a + d <= l => x[5 + a + d] = flag
      /\ 8 + a + d <= l /\ e.placement # None =>
            /\ x[6 + a + d] = e.placement[1].deviceId /\ x[7 + a + d] = e.placement[1].flags
            /\ x[8 + a + d] = e.placement[1].pose
  <2>0. \A i \in 1..l : x[i] = s[o + i]
    BY <1>2
  <2>. HIDE DEF x, l
  <2>1. (1 <= l => x[1] = s[o + 1]) /\ (2 <= l => x[2] = s[o + 2]) /\ (3 <= l => x[3] = s[o + 3])
    BY <1>4, <2>0
  <2>2. /\ 4 + a <= l => x[4 + a] = s[o + 4 + a]
        /\ 5 + a + d <= l => x[5 + a + d] = s[o + 5 + a + d]
    <3>1. (4 + a <= l => 4 + a \in 1..l) /\ o + (4 + a) = o + 4 + a
      BY <1>1, <1>4
    <3>2. (5 + a + d <= l => 5 + a + d \in 1..l) /\ o + (5 + a + d) = o + 5 + a + d
      BY <1>1, <1>4
    <3>. QED BY <2>0, <3>1, <3>2
  <2>3. \A i \in 1..a : 3 + i <= l => x[3 + i] = s[o + 3 + i]
    <3> SUFFICES ASSUME NEW i \in 1..a, 3 + i <= l PROVE x[3 + i] = s[o + 3 + i]
      OBVIOUS
    <3>1. 3 + i \in 1..l /\ o + (3 + i) = o + 3 + i
      BY <1>1, <1>4
    <3>. QED BY <2>0, <3>1
  <2>4. \A i \in 1..d : 4 + a + i <= l => x[4 + a + i] = s[o + 4 + a + i]
    <3> SUFFICES ASSUME NEW i \in 1..d, 4 + a + i <= l PROVE x[4 + a + i] = s[o + 4 + a + i]
      OBVIOUS
    <3>1. 4 + a + i \in 1..l /\ o + (4 + a + i) = o + 4 + a + i
      BY <1>1, <1>4
    <3>. QED BY <2>0, <3>1
  <2>5. 8 + a + d <= l =>
            /\ x[6 + a + d] = s[o + 6 + a + d] /\ x[7 + a + d] = s[o + 7 + a + d] /\ x[8 + a + d] = s[o + 8 + a + d]
    <3>1. 8 + a + d <= l => /\ 6 + a + d \in 1..l /\ 7 + a + d \in 1..l /\ 8 + a + d \in 1..l
      BY <1>1, <1>4
    <3>2. o + (6 + a + d) = o + 6 + a + d /\ o + (7 + a + d) = o + 7 + a + d /\ o + (8 + a + d) = o + 8 + a + d
      BY <1>1
    <3>. QED BY <2>0, <3>1, <3>2
  <2>6. /\ s[o + 1] = e.deviceId /\ s[o + 2] = e.status /\ s[o + 3] = a
        /\ \A i \in 1..a : s[o + 3 + i] = e.model[i]
        /\ s[o + 4 + a] = d
        /\ \A i \in 1..d : s[o + 4 + a + i] = D[i]
        /\ s[o + 5 + a + d] = flag
        /\ e.placement # None =>
            /\ s[o + 6 + a + d] = e.placement[1].deviceId /\ s[o + 7 + a + d] = e.placement[1].flags
            /\ s[o + 8 + a + d] = e.placement[1].pose
    BY DEF Says, a, d, D
  <2>. HIDE DEF flag
  <2>. QED BY <2>1, <2>2, <2>3, <2>4, <2>5, <2>6
<1>. HIDE DEF x, l, flag
<1>6. Len(x) = l
  BY <1>2 DEF l
<1>7. CASE l < 5 + a + d
  <2>1. ~Readable(x)
    <3>1. CASE l < 3
      BY <1>6, <3>1 DEF Readable
    <3>2. CASE 3 <= l /\ l < 4 + a
      <4>1. x[3] = a
        BY <1>5, <3>2
      <4>2. ~(Len(x) >= 4 + x[3])
        BY <1>1, <1>4, <1>6, <3>2, <4>1
      <4>. QED BY <4>2 DEF Readable
    <3>3. CASE 3 <= l /\ 4 + a <= l
      <4>1. x[3] = a /\ x[4 + a] = d
        BY <1>5, <3>3
      <4>2. PlacedAt(x) = 5 + a + d
        BY <1>1, <4>1 DEF PlacedAt, DetailAt
      <4>. QED BY <1>1, <1>4, <1>6, <1>7, <4>2 DEF Readable
    <3>. QED BY <1>1, <1>4, <3>1, <3>2, <3>3
  <2>2. ~(SizeOf(e) <= l)
    BY <1>1, <1>4, <1>3, <1>7 DEF PlacementBytes
  <2>. QED BY <1>2, <1>4, <2>1, <2>2 DEF x, ReadsAs
<1>8. CASE 5 + a + d <= l
  <2>1. /\ x[1] = e.deviceId /\ x[2] = e.status /\ x[3] = a /\ x[4 + a] = d /\ x[5 + a + d] = flag
        /\ \A i \in 1..a : x[3 + i] = e.model[i]
        /\ \A i \in 1..d : x[4 + a + i] = D[i]
    <3>1. /\ 1 <= l /\ 2 <= l /\ 3 <= l /\ 4 + a <= l
          /\ \A i \in 1..a : 3 + i <= l
          /\ \A i \in 1..d : 4 + a + i <= l
      BY <1>1, <1>4, <1>8
    <3>. QED BY <1>5, <1>8, <3>1
  <2>2. DetailAt(x) = 5 + a /\ PlacedAt(x) = 5 + a + d
    BY <1>1, <2>1 DEF DetailAt, PlacedAt
  <2>3. IsPlaced(x) <=> flag = 1
    BY <2>1, <2>2 DEF IsPlaced
  <2>4. EndOf(x) = SizeOf(e)
    BY <1>3, <2>2, <2>3 DEF EndOf
  <2>5. Readable(x) <=> SizeOf(e) <= l
    <3>1. 3 <= l /\ 4 + a <= l
      BY <1>1, <1>4, <1>8
    <3>. QED BY <1>1, <1>4, <1>6, <1>8, <2>1, <2>2, <2>4, <3>1 DEF Readable
  <2>6. ASSUME SizeOf(e) <= l PROVE EntryOf(x) = AsTold(e)
    <3>1. Cut(x, 4, x[3]) = e.model
      <4> DEFINE c == e.model
                 f == 4
      <4>1. f \in Nat \ {0} /\ f + Len(c) - 1 <= Len(x)
        BY <1>1, <1>4, <1>6, <1>8 DEF a
      <4>2. \A i \in 1..Len(c) : f - 1 + i = 3 + i
        BY <1>1 DEF a
      <4>3. \A i \in 1..Len(c) : x[f - 1 + i] = c[i]
        <5>. HIDE DEF f
        <5>. QED BY <2>1, <4>2 DEF a
      <4>. HIDE DEF c, f
      <4>4. Cut(x, f, Len(c)) = c
        BY <1>1, <1>2, <4>1, <4>3, CutIs DEF c
      <4>. QED BY <2>1, <4>4 DEF c, a, f
    <3>2. Cut(x, DetailAt(x), x[4 + x[3]]) = D
      <4> DEFINE f == 5 + a
      <4>1. f \in Nat \ {0} /\ f + Len(D) - 1 <= Len(x)
        BY <1>1, <1>4, <1>6, <1>8 DEF d
      <4>2. \A i \in 1..Len(D) : f - 1 + i = 4 + a + i
        BY <1>1 DEF d
      <4>3. \A i \in 1..Len(D) : x[f - 1 + i] = D[i]
        <5>. HIDE DEF f
        <5>. QED BY <2>1, <4>2 DEF d
      <4>. HIDE DEF f
      <4>4. Cut(x, f, Len(D)) = D
        BY <1>1, <1>2, <4>1, <4>3, CutIs
      <4>. QED BY <2>1, <2>2, <4>4 DEF f, d
    <3>3. (IF IsPlaced(x) THEN ReadPlacement(x, PlacedAt(x) + 1) ELSE None) = e.placement
      <4>1. CASE e.placement = None
        BY <2>3, <4>1 DEF flag
      <4>2. CASE e.placement # None
        <5>1. PICK p \in [deviceId : 0..Byte - 1, flags : 0..Byte - 1, pose : V] : e.placement = <<p>>
          BY <4>2 DEF Wirable
        <5>2. flag = 1 /\ IsPlaced(x) /\ e.placement[1] = p
          BY <2>3, <4>2, <5>1 DEF flag
        <5>3. 8 + a + d <= l
          BY <1>1, <1>3, <2>6, <5>2 DEF PlacementBytes
        <5>4. x[6 + a + d] = p.deviceId /\ x[7 + a + d] = p.flags /\ x[8 + a + d] = p.pose
          BY <1>5, <4>2, <5>2, <5>3
        <5>5. PlacedAt(x) + 1 = 6 + a + d /\ 6 + a + d + 1 = 7 + a + d /\ 6 + a + d + 2 = 8 + a + d
              /\ 6 + a + d + PlacementBytes - 1 = 8 + a + d
          BY <1>1, <2>2 DEF PlacementBytes
        <5>6. ~(8 + a + d > Len(x))
          BY <1>1, <1>4, <1>6, <5>3
        <5>7. ReadPlacement(x, 6 + a + d) = <<[deviceId |-> p.deviceId, flags |-> p.flags, pose |-> p.pose]>>
          BY <5>4, <5>5, <5>6 DEF ReadPlacement
        <5>8. [deviceId |-> p.deviceId, flags |-> p.flags, pose |-> p.pose] = p
          OBVIOUS
        <5>. QED BY <5>1, <5>2, <5>5, <5>7, <5>8
      <4>. QED BY <4>1, <4>2
    <3>4. EntryOf(x) = [deviceId |-> e.deviceId, status |-> e.status, model |-> e.model, detail |-> D, placement |-> e.placement]
      <4>. QED BY <2>1, <3>1, <3>2, <3>3 DEF EntryOf
    <3>5. AsTold(e) = [e EXCEPT !.detail = D]
      BY DEF AsTold, Detail, D
    <3>6. e = [deviceId |-> e.deviceId, status |-> e.status, model |-> e.model, detail |-> e.detail, placement |-> e.placement]
      BY DEF Wirable
    <3>7. \A A, B, C, F, G, H : [[deviceId |-> A, status |-> B, model |-> C, detail |-> F, placement |-> G] EXCEPT !.detail = H] =
            [deviceId |-> A, status |-> B, model |-> C, detail |-> H, placement |-> G]
      OBVIOUS
    <3>. QED BY <3>4, <3>5, <3>6, <3>7
  <2>. QED BY <1>2, <1>4, <2>4, <2>5, <2>6 DEF x, ReadsAs
<1>. QED BY <1>1, <1>4, <1>7, <1>8

LEMMA SaysKept ==
    ASSUME NEW V, MaxDetail \in Nat, NEW e, Wirable(V, e), NEW s, NEW o \in Nat, Says(s, o, e),
           NEW z, \A i \in 1..o + SizeOf(e) : z[i] = s[i]
    PROVE  Says(z, o, e)
<1> DEFINE a == Len(e.model)
           d == Len(Detail(e))
           n == o + SizeOf(e)
<1>1. a \in Nat /\ d \in Nat
  BY DetailFacts
<1>. HIDE DEF a, d
<1>2. /\ SizeOf(e) = 5 + a + d + (IF e.placement = None THEN 0 ELSE 3)
      /\ n \in Nat /\ n >= o + 5 + a + d /\ (e.placement # None => n >= o + 8 + a + d)
  <2>1. SizeOf(e) = 5 + a + d + (IF e.placement = None THEN 0 ELSE 3)
    BY DEF SizeOf, PlacementBytes, a, d
  <2>. QED BY <1>1, <2>1
<1>3. \A i \in 1..n : z[i] = s[i]
  OBVIOUS
<1>. HIDE DEF n
<1>4. /\ o + 1 \in 1..n /\ o + 2 \in 1..n /\ o + 3 \in 1..n /\ o + 4 + a \in 1..n /\ o + 5 + a + d \in 1..n
      /\ \A i \in 1..a : o + 3 + i \in 1..n
      /\ \A i \in 1..d : o + 4 + a + i \in 1..n
      /\ e.placement # None => o + 6 + a + d \in 1..n /\ o + 7 + a + d \in 1..n /\ o + 8 + a + d \in 1..n
  BY <1>1, <1>2
<1>. QED BY <1>3, <1>4 DEF Says, a, d

\* What is written of the first devices of a roster.
Writes(V, B, r) ==
    /\ B \in [0..Len(r) -> Writers(V)] /\ (B[0].fits => Len(B[0].bytes) = 1 /\ B[0].bytes[1] = Len(r))
    /\ \A k \in 1..Len(r) : B[k].fits =>
        /\ B[k - 1].fits /\ Len(B[k].bytes) = Len(B[k - 1].bytes) + SizeOf(r[k])
        /\ \A i \in 1..Len(B[k - 1].bytes) : B[k].bytes[i] = B[k - 1].bytes[i]
        /\ Says(B[k].bytes, Len(B[k - 1].bytes), r[k])

\* A roster whose devices can be told.
Rostered(r) == r \in Seq(Entries) /\ Len(r) <= MaxDevices /\ \A i \in DOMAIN r : Tellable(r[i])

LEMMA RosteredFacts ==
    ASSUME NEW V, WireTypes(V), NEW r, Rostered(r)
    PROVE  /\ Len(r) \in Nat /\ Len(r) \in 0..Byte - 1 /\ DOMAIN r = 1..Len(r)
           /\ \A i \in 1..Len(r) : Wirable(V, r[i]) /\ Tellable(r[i])
<1>1. Len(r) \in Nat /\ Len(r) \in 0..Byte - 1 /\ DOMAIN r = 1..Len(r)
  BY DEF WireTypes, Rostered
<1>2. ASSUME NEW e \in Entries PROVE Wirable(V, e)
  BY <1>2 DEF WireTypes, Wirable
<1>3. \A i \in 1..Len(r) : r[i] \in Entries
  BY DEF Rostered
<1>. QED BY <1>1, <1>2, <1>3 DEF Rostered

LEMMA StateWritten ==
    ASSUME NEW V, WireTypes(V), NEW r, Rostered(r)
    PROVE  \E B : Writes(V, B, r) /\ WriteDeviceState(r) = B[Len(r)]
<1> DEFINE N == Len(r)
           a == PushU8(Shut(<<>>), N)
           F == CHOOSE f : f = [n \in 0..N |-> IF n = 0 THEN a ELSE WriteEntry(f[n - 1], r[n])]
           step == [n \in 1..N |-> [q \in Writers(V) |-> WriteEntry(q, r[n])]]
           W == Writers(V)
<1>1. /\ Byte \in Nat /\ Byte > 1 /\ Nat \subseteq V /\ MaxDetail \in Nat
      /\ N \in Nat /\ N \in 0..Byte - 1
      /\ \A i \in 1..N : Wirable(V, r[i]) /\ Tellable(r[i])
  BY RosteredFacts DEF WireTypes
<1>. HIDE DEF N
<1>2. a \in W /\ (a.fits => Len(a.bytes) = 1 /\ a.bytes[1] = N)
  <2> DEFINE w0 == Shut(<<>>)
  <2>1. w0 \in Writers(V) /\ w0.fits /\ Len(w0.bytes) = 0
    BY ShutFacts
  <2>. HIDE DEF w0
  <2> DEFINE x == PushU8(w0, N)
  <2>2. x \in Writers(V) /\ (x.fits => Len(x.bytes) = Len(w0.bytes) + 1 /\ x.bytes[Len(w0.bytes) + 1] = N)
    BY <1>1, <2>1, PushByteFacts, ZenonT(60)
  <2>. HIDE DEF x
  <2>3. Len(w0.bytes) + 1 = 1
    BY <2>1
  <2>4. x \in Writers(V) /\ (x.fits => Len(x.bytes) = 1 /\ x.bytes[1] = N)
    BY <2>2, <2>3
  <2>. QED BY <2>4 DEF x, w0
<1>3. ASSUME NEW n \in 1..N, NEW q \in W
      PROVE  LET x == WriteEntry(q, r[n])
             IN  /\ x \in W
                 /\ x.fits => /\ q.fits /\ Len(x.bytes) = Len(q.bytes) + SizeOf(r[n])
                              /\ \A i \in 1..Len(q.bytes) : x.bytes[i] = q.bytes[i]
                              /\ Says(x.bytes, Len(q.bytes), r[n])
  <2> DEFINE e == r[n]
  <2>1. Wirable(V, e) /\ Tellable(e)
    BY <1>1
  <2>. HIDE DEF e
  <2>. QED BY <1>1, <1>3, <2>1, EntryWritten DEF e
<1>4. PICK g \in [0..N -> W] : Iterates(g, N, a, step)
  <2>1. step \in [1..N -> [W -> W]]
    BY <1>3
  <2>. HIDE DEF step, a, W
  <2>. QED BY <1>1, <1>2, <2>1, Recursion
<1>5. g = [n \in 0..N |-> IF n = 0 THEN a ELSE WriteEntry(g[n - 1], r[n])]
  <2>1. \A n \in 0..N : g[n] = IF n = 0 THEN a ELSE WriteEntry(g[n - 1], r[n])
    <3> SUFFICES ASSUME NEW n \in 0..N PROVE g[n] = IF n = 0 THEN a ELSE WriteEntry(g[n - 1], r[n])
      OBVIOUS
    <3>1. CASE n = 0
      BY <1>4, <3>1 DEF Iterates
    <3>2. CASE n # 0
      <4>1. n \in 1..N /\ n - 1 \in 0..N
        BY <1>1, <3>2
      <4>2. g[n - 1] \in W /\ g[n] = step[n][g[n - 1]]
        BY <1>4, <4>1 DEF Iterates
      <4>3. \A q \in W : step[n][q] = WriteEntry(q, r[n])
        BY <4>1
      <4>. QED BY <3>2, <4>2, <4>3
    <3>. QED BY <3>1, <3>2
  <2>2. g = [n \in 0..N |-> g[n]]
    BY <1>4
  <2>. HIDE DEF a
  <2>. QED BY <2>1, <2>2, Zenon
<1>6. F = [n \in 0..N |-> IF n = 0 THEN a ELSE WriteEntry(F[n - 1], r[n])]
  <2>. HIDE DEF a
  <2>. QED BY <1>5, Zenon
<1>7. WriteDeviceState(r) = F[N]
  BY Zenon DEF WriteDeviceState, N
<1>. HIDE DEF F, a
<1>8. F[0] = a /\ \A n \in 1..N : F[n] = WriteEntry(F[n - 1], r[n])
  <2>1. 0 \in 0..N /\ \A n \in 1..N : n \in 0..N /\ n # 0
    BY <1>1
  <2>. QED BY <1>6, <2>1, Zenon
<1> DEFINE H == {n \in 0..N : F[n] \in W}
<1>9. \A n \in 0..N : F[n] \in W
  <2>1. 0 \in H
    BY <1>1, <1>2, <1>8
  <2>2. ASSUME NEW n \in 1..N, n - 1 \in H PROVE n \in H
    <3>1. F[n - 1] \in W /\ n \in 0..N
      BY <1>1, <2>2
    <3>2. WriteEntry(F[n - 1], r[n]) \in W
      BY <1>3, <3>1
    <3>. QED BY <1>8, <3>1, <3>2
  <2>3. 0..N \subseteq H
    <3>. HIDE DEF H
    <3>. QED BY <1>1, <2>1, <2>2, Induction
  <2>. QED BY <2>3
<1>10. F \in [0..N -> W]
  <2>1. F = [n \in 0..N |-> F[n]]
    BY <1>6
  <2>. QED BY <1>9, <2>1
<1>11. ASSUME NEW k \in 1..N, F[k].fits
       PROVE  /\ F[k - 1].fits /\ Len(F[k].bytes) = Len(F[k - 1].bytes) + SizeOf(r[k])
              /\ \A i \in 1..Len(F[k - 1].bytes) : F[k].bytes[i] = F[k - 1].bytes[i]
              /\ Says(F[k].bytes, Len(F[k - 1].bytes), r[k])
  <2>1. F[k - 1] \in W /\ F[k] = WriteEntry(F[k - 1], r[k])
    BY <1>1, <1>8, <1>9
  <2> DEFINE q == F[k - 1]
  <2>. HIDE DEF q, W
  <2>2. q \in W /\ F[k] = WriteEntry(q, r[k])
    BY <2>1 DEF q
  <2>. QED BY <1>3, <1>11, <2>2 DEF q
<1>12. Writes(V, F, r)
  BY <1>2, <1>8, <1>10, <1>11 DEF Writes, N
<1>. QED BY <1>7, <1>12 DEF N

\* A body in which the devices of a roster follow each other: the k-th ends at at[k].
LaidOut(V, s, r, at) ==
    /\ s \in Seq(V) /\ at \in [0..Len(r) -> Nat] /\ at[0] = 1 /\ at[Len(r)] = Len(s) /\ s[1] = Len(r)
    /\ \A k \in 1..Len(r) : at[k] = at[k - 1] + SizeOf(r[k]) /\ at[k] <= Len(s) /\ Says(s, at[k - 1], r[k])

LEMMA SizeFacts ==
    ASSUME NEW V, MaxDetail \in Nat, NEW e, Wirable(V, e) PROVE SizeOf(e) \in Nat \ {0}
<1> DEFINE a == Len(e.model)
           d == Len(Detail(e))
<1>1. a \in Nat /\ d \in Nat
  BY DetailFacts
<1>. HIDE DEF a, d
<1>2. SizeOf(e) = 5 + a + d + (IF e.placement = None THEN 0 ELSE 3)
  BY DEF SizeOf, PlacementBytes, a, d
<1>. QED BY <1>1, <1>2

LEMMA StateLaidOut ==
    ASSUME NEW V, WireTypes(V), NEW r, Rostered(r), WriteDeviceState(r).fits
    PROVE  \E at : LaidOut(V, WriteDeviceState(r).bytes, r, at)
<1>1. PICK B : Writes(V, B, r) /\ WriteDeviceState(r) = B[Len(r)]
  BY StateWritten
<1> DEFINE N == Len(r)
           s == B[N].bytes
           at == [k \in 0..N |-> Len(B[k].bytes)]
<1>2. /\ N \in Nat /\ MaxDetail \in Nat /\ \A k \in 1..N : Wirable(V, r[k]) /\ SizeOf(r[k]) \in Nat \ {0}
  BY RosteredFacts, SizeFacts DEF WireTypes
<1>3. /\ B \in [0..N -> Writers(V)] /\ B[N].fits
      /\ B[0].fits => Len(B[0].bytes) = 1 /\ B[0].bytes[1] = N
      /\ \A k \in 1..N : B[k].fits =>
            /\ B[k - 1].fits /\ Len(B[k].bytes) = Len(B[k - 1].bytes) + SizeOf(r[k])
            /\ \A i \in 1..Len(B[k - 1].bytes) : B[k].bytes[i] = B[k - 1].bytes[i]
            /\ Says(B[k].bytes, Len(B[k - 1].bytes), r[k])
  BY <1>1 DEF Writes
<1>. HIDE DEF N
<1>4. \A k \in 0..N : B[k].bytes \in Seq(V) /\ Len(B[k].bytes) \in Nat
  BY <1>3 DEF Writers
<1> DEFINE Within(k) == B[k].fits /\ Len(B[k].bytes) <= Len(s) /\ \A i \in 1..Len(B[k].bytes) : s[i] = B[k].bytes[i]
           G == {j \in 0..N : Within(N - j)}
<1>5. \A k \in 0..N : Within(k)
  <2>1. 0 \in G
    <3>1. N - 0 = N /\ 0 \in 0..N /\ N \in 0..N
      BY <1>2
    <3>2. Within(N)
      BY <1>3, <1>4, <3>1
    <3>. HIDE DEF Within
    <3>. QED BY <3>1, <3>2
  <2>2. ASSUME NEW j \in 1..N, j - 1 \in G PROVE j \in G
    <3> DEFINE k == N - (j - 1)
    <3>1. k \in 1..N /\ k - 1 = N - j /\ j \in 0..N /\ k \in 0..N /\ k - 1 \in 0..N
      BY <1>2
    <3>. HIDE DEF k
    <3>2. Within(k)
      BY <2>2 DEF k
    <3>3. /\ B[k - 1].fits /\ Len(B[k].bytes) = Len(B[k - 1].bytes) + SizeOf(r[k])
          /\ \A i \in 1..Len(B[k - 1].bytes) : B[k].bytes[i] = B[k - 1].bytes[i]
      BY <1>3, <3>1, <3>2
    <3>4. Len(B[k - 1].bytes) \in Nat /\ Len(B[k - 1].bytes) <= Len(B[k].bytes) /\ Len(B[k].bytes) \in Nat /\ Len(s) \in Nat
      <4>1. SizeOf(r[k]) \in Nat /\ Len(B[k - 1].bytes) \in Nat /\ Len(B[k].bytes) \in Nat /\ Len(s) \in Nat
        BY <1>2, <1>4, <3>1
      <4>. QED BY <3>3, <4>1
    <3>5. Within(k - 1)
      <4> DEFINE l == Len(B[k - 1].bytes)
                 m == Len(B[k].bytes)
      <4>1. l \in Nat /\ m \in Nat /\ l <= m
        BY <3>4
      <4>. HIDE DEF l, m
      <4>2. \A i \in 1..l : i \in 1..m
        BY <4>1
      <4>3. \A i \in 1..l : s[i] = B[k - 1].bytes[i]
        BY <3>2, <3>3, <4>2 DEF l, m
      <4>4. l <= Len(s)
        BY <3>2, <3>4 DEF l
      <4>. QED BY <3>3, <4>3, <4>4 DEF l
    <3>. HIDE DEF Within
    <3>. QED BY <3>1, <3>5
  <2>3. 0..N \subseteq G
    <3>. HIDE DEF G
    <3>. QED BY <1>2, <2>1, <2>2, Induction
  <2>4. ASSUME NEW k \in 0..N PROVE Within(k)
    <3>1. N - k \in 0..N /\ N - (N - k) = k
      BY <1>2
    <3>. HIDE DEF Within
    <3>2. Within(N - (N - k))
      BY <2>3, <3>1
    <3>. QED BY <3>1, <3>2
  <2>. QED BY <2>4
<1>6. s \in Seq(V) /\ at \in [0..N -> Nat] /\ at[0] = 1 /\ at[N] = Len(s) /\ s[1] = N
  <2>1. 0 \in 0..N /\ N \in 0..N
    BY <1>2
  <2>2. s \in Seq(V) /\ at \in [0..N -> Nat] /\ at[0] = 1 /\ at[N] = Len(s)
    BY <1>3, <1>4, <1>5, <2>1
  <2>3. s[1] = B[0].bytes[1] /\ B[0].fits
    <3>1. B[0].fits /\ \A i \in 1..Len(B[0].bytes) : s[i] = B[0].bytes[i]
      BY <1>5, <2>1
    <3>2. Len(B[0].bytes) = 1
      BY <1>3, <3>1
    <3>. HIDE DEF s
    <3>. QED BY <3>1, <3>2
  <2>. QED BY <1>3, <2>2, <2>3
<1>7. ASSUME NEW k \in 1..N
      PROVE  at[k] = at[k - 1] + SizeOf(r[k]) /\ at[k] <= Len(s) /\ Says(s, at[k - 1], r[k])
  <2>1. k \in 0..N /\ k - 1 \in 0..N
    BY <1>2
  <2>2. Within(k)
    BY <1>5, <2>1
  <2>3. at[k] = Len(B[k].bytes) /\ at[k - 1] = Len(B[k - 1].bytes) /\ at[k - 1] \in Nat
    BY <1>6, <2>1
  <2>4. at[k] = at[k - 1] + SizeOf(r[k]) /\ at[k] <= Len(s) /\ Says(B[k].bytes, at[k - 1], r[k])
    BY <1>3, <2>2, <2>3
  <2>5. \A i \in 1..at[k - 1] + SizeOf(r[k]) : s[i] = B[k].bytes[i]
    BY <2>2, <2>3, <2>4
  <2> DEFINE o == at[k - 1]
             e == r[k]
             b == B[k].bytes
  <2>6. o \in Nat /\ Wirable(V, e) /\ Says(b, o, e) /\ \A i \in 1..o + SizeOf(e) : s[i] = b[i]
    BY <1>2, <2>3, <2>4, <2>5
  <2>. HIDE DEF o, e, b, s
  <2>7. Says(s, o, e)
    BY <1>2, <2>6, SaysKept
  <2>. QED BY <2>4, <2>7 DEF o, e, s
<1>8. LaidOut(V, s, r, at)
  <2>. HIDE DEF s, at
  <2>. QED BY <1>6, <1>7 DEF LaidOut, N
<1>. QED BY <1>1, <1>8 DEF N

\* What readEntries() makes of a body that ends at m: the devices that end there, as they were told.
LEMMA EntriesRead ==
    ASSUME NEW V, WireTypes(V), NEW r, Rostered(r), NEW s, NEW at, LaidOut(V, s, r, at), NEW m \in 1..Len(s)
    PROVE  ReadDeviceState(SubSeq(s, 1, m)) = [k \in {i \in 1..Len(r) : at[i] <= m} |-> AsTold(r[k])]
<1> DEFINE N == Len(r)
           x == SubSeq(s, 1, m)
           y == Tail(x)
           F == CHOOSE f : f = [k \in 0..N |-> IF k = 0 THEN y
                    ELSE IF Readable(f[k - 1]) THEN Rest(f[k - 1], EndOf(f[k - 1])) ELSE None]
           g == [k \in 0..N |-> IF at[k] <= m THEN SubSeq(s, at[k] + 1, m) ELSE None]
<1>1. /\ N \in Nat /\ MaxDetail \in Nat /\ Nat \subseteq V
      /\ \A k \in 1..N : Wirable(V, r[k]) /\ SizeOf(r[k]) \in Nat \ {0}
  BY RosteredFacts, SizeFacts DEF WireTypes
<1>2. /\ s \in Seq(V) /\ Len(s) \in Nat /\ at \in [0..N -> Nat] /\ at[0] = 1 /\ at[N] = Len(s) /\ s[1] = N
      /\ \A k \in 1..N : at[k] = at[k - 1] + SizeOf(r[k]) /\ at[k] <= Len(s) /\ Says(s, at[k - 1], r[k])
  BY DEF LaidOut
<1>. HIDE DEF N
<1>3. m \in Nat /\ 1 <= m /\ m <= Len(s)
  BY <1>2
<1>4. x # <<>> /\ x[1] = N /\ y = SubSeq(s, 2, m)
  <2>1. /\ x \in Seq(V) /\ Len(x) = IF 1 <= m THEN m - 1 + 1 ELSE 0
        /\ \A i \in 1..m - 1 + 1 : x[i] = s[1 + i - 1]
    BY <1>2, <1>3, CutFacts
  <2>2. Tail(x) = SubSeq(s, 1 + 1, m)
    BY <1>2, <1>3, HeadTailOfSubSeq
  <2>. HIDE DEF x
  <2>3. Len(x) = m /\ x[1] = s[1]
    BY <1>3, <2>1
  <2>4. x # <<>>
    BY <1>3, <2>3, EmptySeq
  <2>. QED BY <1>2, <2>2, <2>3, <2>4
<1>. HIDE DEF x, y
\* What is left after k devices.
<1>5. ASSUME NEW k \in 1..N
      PROVE  /\ g[k] = IF Readable(g[k - 1]) THEN Rest(g[k - 1], EndOf(g[k - 1])) ELSE None
             /\ Readable(g[k - 1]) <=> at[k] <= m
             /\ Readable(g[k - 1]) => EntryOf(g[k - 1]) = AsTold(r[k])
  <2> DEFINE o == at[k - 1]
             e == r[k]
  <2>1. /\ k \in 0..N /\ k - 1 \in 0..N /\ o \in Nat /\ at[k] = o + SizeOf(e) /\ at[k] <= Len(s) /\ Says(s, o, e)
        /\ Wirable(V, e) /\ SizeOf(e) \in Nat \ {0}
    BY <1>1, <1>2
  <2>2. /\ g[k] = IF at[k] <= m THEN SubSeq(s, at[k] + 1, m) ELSE None
        /\ g[k - 1] = IF o <= m THEN SubSeq(s, o + 1, m) ELSE None
    BY <2>1
  <2>. HIDE DEF o, e, g
  <2>3. CASE ~(o <= m)
    <3>1. g[k - 1] = <<>> /\ ~(at[k] <= m)
      BY <1>3, <2>1, <2>2, <2>3 DEF None
    <3>2. ~Readable(<<>>)
      BY EmptySeq DEF Readable
    <3>. QED BY <2>2, <3>1, <3>2
  <2>4. CASE o <= m
    <3> DEFINE z == SubSeq(s, o + 1, m)
    <3>1. m \in o..Len(s)
      BY <1>3, <2>1, <2>4
    <3>2. /\ z \in Seq(V) /\ Len(z) = m - o
          /\ Readable(z) <=> o + SizeOf(e) <= m
          /\ Readable(z) => EndOf(z) = SizeOf(e) /\ EntryOf(z) = AsTold(e)
      <4>1. ReadsAs(V, z, e, o, m)
        BY <1>1, <1>2, <2>1, <3>1, EntryRead
      <4>. QED BY <4>1 DEF ReadsAs
    <3>3. g[k - 1] = z
      BY <2>2, <2>4
    <3>4. o + 1 \in Nat \ {0} /\ m \in 0..Len(s)
      BY <1>2, <1>3, <2>1
    <3>5. \A i \in 1..m - o : z[i] = s[o + i]
      <4>1. \A i \in 1..m - (o + 1) + 1 : z[i] = s[o + 1 + i - 1]
        BY <1>2, <3>4, CutFacts
      <4>2. m - (o + 1) + 1 = m - o /\ \A i \in 1..m - o : o + 1 + i - 1 = o + i
        BY <1>3, <2>1
      <4>. HIDE DEF z
      <4>. QED BY <4>1, <4>2
    <3>. HIDE DEF z
    <3>6. ASSUME at[k] <= m PROVE Rest(z, SizeOf(e)) = SubSeq(s, at[k] + 1, m)
      <4> DEFINE n == SizeOf(e)
                 l == m - o
                 p == SubSeq(z, n + 1, l)
                 q == SubSeq(s, at[k] + 1, m)
      <4>1. n \in Nat /\ l \in Nat /\ n <= l /\ n + 1 \in Nat \ {0} /\ l \in 0..Len(z) /\ at[k] = o + n
            /\ at[k] + 1 \in Nat \ {0} /\ l - (n + 1) + 1 = m - (at[k] + 1) + 1 /\ (n + 1 <= l <=> at[k] + 1 <= m)
        BY <1>3, <2>1, <2>4, <3>2, <3>6
      <4>2. Rest(z, n) = p
        BY <3>2 DEF Rest
      <4>. HIDE DEF n, l
      <4>3. /\ p \in Seq(V) /\ Len(p) = IF n + 1 <= l THEN l - (n + 1) + 1 ELSE 0
            /\ \A i \in 1..l - (n + 1) + 1 : p[i] = z[n + 1 + i - 1]
        BY <3>2, <4>1, CutFacts
      <4>4. /\ q \in Seq(V) /\ Len(q) = IF at[k] + 1 <= m THEN m - (at[k] + 1) + 1 ELSE 0
            /\ \A i \in 1..m - (at[k] + 1) + 1 : q[i] = s[at[k] + 1 + i - 1]
        <5> DEFINE f == at[k] + 1
        <5>1. f \in Nat \ {0}
          BY <4>1
        <5>. HIDE DEF f
        <5>2. /\ SubSeq(s, f, m) \in Seq(V) /\ Len(SubSeq(s, f, m)) = IF f <= m THEN m - f + 1 ELSE 0
              /\ \A i \in 1..m - f + 1 : SubSeq(s, f, m)[i] = s[f + i - 1]
          BY <1>2, <3>4, <5>1, CutFacts
        <5>. QED BY <5>2 DEF f
      <4>. HIDE DEF p, q
      <4>5. Len(p) = Len(q)
        BY <4>1, <4>3, <4>4
      <4>6. ASSUME NEW i \in 1..Len(p) PROVE p[i] = q[i]
        <5>1. i \in 1..l - (n + 1) + 1
          BY <4>1, <4>3, <4>6
        <5>2. n + 1 + i - 1 \in 1..m - o /\ o + (n + 1 + i - 1) = at[k] + 1 + i - 1
          BY <1>3, <2>1, <4>1, <5>1 DEF l
        <5>3. p[i] = z[n + 1 + i - 1] /\ q[i] = s[at[k] + 1 + i - 1]
          BY <4>1, <4>3, <4>4, <5>1
        <5>. QED BY <3>5, <5>2, <5>3
      <4>7. p = q
        BY <4>3, <4>4, <4>5, <4>6, SeqEqual
      <4>. QED BY <4>2, <4>7 DEF n, q
    <3>7. Readable(z) <=> at[k] <= m
      BY <2>1, <3>2
    <3>. QED BY <2>2, <3>2, <3>3, <3>6, <3>7 DEF e
  <2>. QED BY <2>3, <2>4 DEF e
<1>6. g[0] = y
  <2>1. 0 \in 0..N /\ at[0] + 1 = 2 /\ at[0] <= m
    BY <1>1, <1>2, <1>3
  <2>. QED BY <1>4, <2>1
<1>7. g = [k \in 0..N |-> IF k = 0 THEN y ELSE IF Readable(g[k - 1]) THEN Rest(g[k - 1], EndOf(g[k - 1])) ELSE None]
  <2>1. \A k \in 0..N : g[k] = IF k = 0 THEN y ELSE IF Readable(g[k - 1]) THEN Rest(g[k - 1], EndOf(g[k - 1])) ELSE None
    <3>1. \A k \in 0..N : k = 0 \/ k \in 1..N
      BY <1>1
    <3>2. \A k \in 1..N : k # 0
      OBVIOUS
    <3>. HIDE DEF g
    <3>. QED BY <1>5, <1>6, <3>1, <3>2
  <2>2. g = [k \in 0..N |-> g[k]]
    OBVIOUS
  <2>. HIDE DEF g
  <2>. QED BY <2>1, <2>2, Zenon
<1>8. F = [k \in 0..N |-> IF k = 0 THEN y ELSE IF Readable(F[k - 1]) THEN Rest(F[k - 1], EndOf(F[k - 1])) ELSE None]
  <2>. HIDE DEF g
  <2>. QED BY <1>7, Zenon
<1>9. \A k \in 0..N : F[k] = g[k]
  <2>. HIDE DEF F, g
  <2> DEFINE H == {k \in 0..N : F[k] = g[k]}
  <2>1. 0 \in H
    BY <1>1, <1>6, <1>8
  <2>2. ASSUME NEW k \in 1..N, k - 1 \in H PROVE k \in H
    <3>1. k \in 0..N /\ k # 0 /\ F[k - 1] = g[k - 1]
      BY <1>1, <2>2
    <3>2. F[k] = IF Readable(F[k - 1]) THEN Rest(F[k - 1], EndOf(F[k - 1])) ELSE None
      BY <1>8, <3>1, Zenon
    <3>. QED BY <1>5, <3>1, <3>2
  <2>3. 0..N \subseteq H
    <3>. HIDE DEF H
    <3>. QED BY <1>1, <2>1, <2>2, Induction
  <2>. QED BY <2>3
<1>10. ReadEntries(y, N) = [k \in {i \in 1..N : Readable(F[i - 1])} |-> EntryOf(F[k - 1])]
  BY Zenon DEF ReadEntries
<1>. HIDE DEF F, g
<1>11. /\ {i \in 1..N : Readable(F[i - 1])} = {i \in 1..N : at[i] <= m}
       /\ \A k \in {i \in 1..N : Readable(F[i - 1])} : EntryOf(F[k - 1]) = AsTold(r[k])
  <2>1. \A k \in 1..N : k - 1 \in 0..N
    BY <1>1
  <2>. QED BY <1>5, <1>9, <2>1
<1>12. ReadEntries(y, N) = [k \in {i \in 1..N : at[i] <= m} |-> AsTold(r[k])]
  BY <1>10, <1>11
<1>13. ReadDeviceState(x) = ReadEntries(y, N)
  BY <1>4 DEF ReadDeviceState, y
<1>. QED BY <1>12, <1>13 DEF x, N

\* Some sequence up to any of its elements.
LEMMA PrefixFacts ==
    ASSUME NEW N \in Nat, NEW t, NEW K \in 0..N, NEW u,
           t = [i \in 1..N |-> t[i]], u = [i \in 1..K |-> t[i]]
    PROVE  IsPrefix(u, t)
<1> DEFINE T == {t[i] : i \in 1..N}
<1>1. t \in Seq(T) /\ Len(t) = N
  OBVIOUS
<1>2. \A i \in 1..K : i \in 1..N
  OBVIOUS
<1>3. u \in Seq(T) /\ Len(u) = K
  <2>1. u \in [1..K -> T] /\ K \in Nat
    BY <1>2
  <2>. HIDE DEF T
  <2>2. u \in Seq(T)
    BY <2>1, SeqDef, ZenonT(60)
  <2>3. Len(u) \in Nat /\ DOMAIN u = 1..Len(u) /\ DOMAIN u = 1..K
    BY <2>1, <2>2
  <2>. QED BY <2>1, <2>2, <2>3
<1>. HIDE DEF T
<1> DEFINE v == SubSeq(t, 1, K)
<1>4. SubSeq(u, 1, K) = u
  BY <1>3, SubSeqFull
<1>5. /\ v \in Seq(T) /\ Len(v) = IF 1 <= K THEN K - 1 + 1 ELSE 0
      /\ \A i \in 1..K - 1 + 1 : v[i] = t[1 + i - 1]
  BY <1>1, CutFacts
<1>. HIDE DEF v
<1>6. Len(v) = K /\ \A i \in 1..K : v[i] = t[i]
  <2>1. K \in Nat /\ K - 1 + 1 = K
    OBVIOUS
  <2>2. \A i \in 1..K : 1 + i - 1 = i
    OBVIOUS
  <2>3. Len(v) = K
    BY <1>5, <2>1
  <2>. QED BY <1>5, <2>1, <2>2, <2>3
<1>7. \A i \in 1..K : u[i] = t[i]
  OBVIOUS
<1>8. v = u
  BY <1>3, <1>5, <1>6, <1>7, SeqEqual
<1>. QED BY <1>1, <1>3, <1>4, <1>8 DEF IsPrefix, v

\* A roster whose body ends anywhere.
LEMMA PartFacts ==
    ASSUME NEW V, WireTypes(V), NEW r, Rostered(r), NEW s, NEW at, LaidOut(V, s, r, at), NEW m \in 0..Len(s)
    PROVE  LET asTold == [i \in DOMAIN r |-> AsTold(r[i])]
               part == ReadDeviceState(SubSeq(s, 1, m))
           IN  IsPrefix(part, asTold) /\ (m = Len(s) => part = asTold)
<1> DEFINE N == Len(r)
           asTold == [i \in DOMAIN r |-> AsTold(r[i])]
           part == ReadDeviceState(SubSeq(s, 1, m))
<1>1. N \in Nat /\ DOMAIN r = 1..N /\ \A k \in 1..N : SizeOf(r[k]) \in Nat \ {0}
  BY RosteredFacts, SizeFacts DEF WireTypes
<1>2. /\ s \in Seq(V) /\ Len(s) \in Nat /\ at \in [0..N -> Nat] /\ at[0] = 1 /\ at[N] = Len(s)
      /\ \A k \in 1..N : at[k] = at[k - 1] + SizeOf(r[k])
  BY DEF LaidOut
<1>. HIDE DEF N
<1>3. asTold = [i \in 1..N |-> asTold[i]]
  BY <1>1
<1>4. Len(s) # 0
  <2> DEFINE G == {k \in 0..N : at[k] >= 1}
  <2>1. 0 \in G
    BY <1>1, <1>2
  <2>2. ASSUME NEW k \in 1..N, k - 1 \in G PROVE k \in G
    <3>1. k - 1 \in 0..N /\ k \in 0..N
      BY <1>1
    <3>2. at[k - 1] \in Nat /\ at[k] = at[k - 1] + SizeOf(r[k]) /\ SizeOf(r[k]) \in Nat
      BY <1>1, <1>2, <3>1
    <3>. QED BY <2>2, <3>1, <3>2
  <2>3. 0..N \subseteq G
    <3>. HIDE DEF G
    <3>. QED BY <1>1, <2>1, <2>2, Induction
  <2>. QED BY <1>1, <1>2, <2>3
<1>5. CASE m = 0
  <2>1. SubSeq(s, 1, m) = <<>>
    BY <1>5, SubSeqEmpty
  <2>2. part = <<>>
    BY <2>1 DEF ReadDeviceState
  <2>3. \A i \in 1..0 : FALSE
    OBVIOUS
  <2>4. <<>> = [i \in 1..0 |-> asTold[i]]
    BY <2>3
  <2>. HIDE DEF asTold, part
  <2>5. 0 \in 0..N
    BY <1>1
  <2>6. IsPrefix(part, asTold)
    BY <1>1, <1>3, <2>2, <2>4, <2>5, PrefixFacts
  <2>. QED BY <1>4, <1>5, <2>6 DEF asTold, part
<1>6. CASE m # 0
  <2>1. m \in 1..Len(s) /\ m \in Nat
    BY <1>2, <1>6
  <2> DEFINE S == {i \in 1..N : at[i] <= m}
  <2>2. part = [k \in S |-> AsTold(r[k])]
    BY <2>1, EntriesRead DEF N
  <2>. HIDE DEF part
  <2>3. PICK K \in {i \in 0..N : at[i] <= m} : \A i \in {j \in 0..N : at[j] <= m} : i <= K
    <3> DEFINE T == {i \in 0..N : at[i] <= m}
    <3>1. T \subseteq 0..N /\ 0 \in T
      BY <1>1, <1>2, <2>1
    <3>. HIDE DEF T
    <3>2. \E i \in T : \A j \in T : j <= i
      BY <1>1, <3>1, Greatest
    <3>. QED BY <3>2 DEF T
  <2>4. S = 1..K
    <3> DEFINE G == {j \in 0..K : at[K - j] <= m}
    <3>0. K \in 0..N /\ K \in Nat /\ at[K] <= m
      BY <1>1
    <3>1. 0 \in G
      BY <3>0
    <3>2. ASSUME NEW j \in 1..K, j - 1 \in G PROVE j \in G
      <4> DEFINE k == K - (j - 1)
      <4>1. k \in 1..N /\ k - 1 = K - j /\ k - 1 \in 0..N /\ k \in 0..N /\ j \in 0..K
        BY <1>1, <3>0
      <4>. HIDE DEF k
      <4>2. at[k] <= m
        BY <3>2 DEF k
      <4>3. at[k] = at[k - 1] + SizeOf(r[k]) /\ at[k - 1] \in Nat /\ SizeOf(r[k]) \in Nat
        BY <1>1, <1>2, <4>1
      <4>4. at[k - 1] <= m
        BY <2>1, <4>2, <4>3
      <4>. QED BY <4>1, <4>4
    <3>3. 0..K \subseteq G
      <4>. HIDE DEF G
      <4>. QED BY <3>0, <3>1, <3>2, Induction
    <3>4. ASSUME NEW i \in 1..K PROVE i \in S
      <4>1. K - i \in 0..K /\ K - (K - i) = i /\ i \in 1..N
        BY <1>1, <3>0
      <4>2. K - i \in G
        BY <3>3, <4>1
      <4>3. at[K - (K - i)] <= m
        BY <4>2
      <4>. QED BY <4>1, <4>3
    <3>5. ASSUME NEW i \in S PROVE i \in 1..K
      <4>1. i \in 0..N /\ at[i] <= m /\ i \in 1..N
        BY <1>1
      <4>2. i <= K
        BY <2>3, <4>1
      <4>. QED BY <3>0, <4>1, <4>2
    <3>. QED BY <3>4, <3>5
  <2>5. K \in 0..N /\ K \in Nat
    BY <1>1
  <2>6. part = [i \in 1..K |-> asTold[i]]
    <3>1. \A i \in 1..K : asTold[i] = AsTold(r[i])
      BY <1>1, <2>5
    <3>. HIDE DEF S, asTold
    <3>. QED BY <2>2, <2>4, <3>1
  <2>7. IsPrefix(part, asTold)
    <3>. HIDE DEF asTold
    <3>. QED BY <1>1, <1>3, <2>5, <2>6, PrefixFacts
  <2>8. ASSUME m = Len(s) PROVE part = asTold
    <3>1. N \in 0..N /\ at[N] <= m
      BY <1>1, <1>2, <2>8
    <3>2. N <= K
      BY <2>3, <3>1
    <3>3. K = N
      BY <1>1, <2>5, <3>2
    <3>. HIDE DEF asTold
    <3>. QED BY <1>3, <2>6, <3>3
  <2>. QED BY <2>7, <2>8 DEF part
<1>. QED BY <1>5, <1>6
-----------------------------------------------------------------------------
\* The body that was last sent is of the devices the roster was last made of.
BodyInv ==
    /\ roster \in Seq(Entries) /\ Len(roster) <= MaxDevices
    /\ \/ roster = <<>> /\ body = <<>>
       \/ WriteDeviceState(roster).fits /\ body = WriteDeviceState(roster).bytes

LEMMA InitBody == ASSUME NEW V, WireTypes(V), WirePropsInit PROVE BodyInv
<1>1. <<>> \in Seq(Entries) /\ Len(<<>>) = 0
  BY EmptySeq
<1>. QED BY <1>1 DEF WirePropsInit, WireInit, BodyInv, WireTypes

LEMMA StepBody == ASSUME NEW V, WireTypes(V), BodyInv, [WirePropsNext]_wirePropsVars PROVE BodyInv'
<1>1. CASE UNCHANGED rosterVars
  BY <1>1 DEF BodyInv, rosterVars
<1>2. CASE RostersNext
  <2>1. PICK e \in Entries : Len(roster) < MaxDevices /\ SendRoster(Append(roster, e))
    BY <1>2 DEF RostersNext, Rosters
  <2> DEFINE entries == Append(roster, e)
  <2>2. entries \in Seq(Entries) /\ Len(entries) <= MaxDevices
    BY <2>1 DEF BodyInv, WireTypes
  <2>. HIDE DEF entries
  <2>3. /\ roster' = IF WriteDeviceState(entries).fits THEN entries ELSE roster
        /\ body' = IF WriteDeviceState(entries).fits THEN WriteDeviceState(entries).bytes ELSE body
    BY <2>1 DEF SendRoster, entries
  <2>4. CASE WriteDeviceState(entries).fits
    <3>1. roster' = entries /\ body' = WriteDeviceState(entries).bytes
      BY <2>3, <2>4
    <3>. QED BY <2>2, <2>4, <3>1 DEF BodyInv
  <2>5. CASE ~WriteDeviceState(entries).fits
    <3>1. roster' = roster /\ body' = body
      BY <2>3, <2>5
    <3>. QED BY <3>1 DEF BodyInv
  <2>. QED BY <2>4, <2>5
<1>3. PacketsNext \/ UNCHANGED wirePropsVars => UNCHANGED rosterVars
  BY DEF PacketsNext, BeginFrame, ReloadPage, Push, EndFrame, Finish, Arrive, ResetWindow, Tick, wirePropsVars, wireVars
<1>. QED BY <1>1, <1>2, <1>3 DEF WirePropsNext

LEMMA BodyHolds == ASSUME NEW V, WireTypes(V), BodyInv PROVE BodiesArriveInPart
<1>1. LettersArrive
  BY LettersFacts
<1>2. ASSUME \A i \in DOMAIN roster : Tellable(roster[i])
      PROVE  (\A n \in 0..Len(body) : IsPrefix(Part(n), Told)) /\ Part(Len(body)) = Told
  <2>1. Rostered(roster)
    BY <1>2 DEF BodyInv, Rostered
  <2>2. CASE roster = <<>> /\ body = <<>>
    <3>1. DOMAIN roster = {} /\ Len(body) = 0
      BY <2>2, EmptySeq
    <3>2. Told = <<>>
      BY <3>1 DEF Told
    <3>3. SubSeq(body, 1, 0) = <<>>
      BY SubSeqEmpty
    <3>4. Part(0) = <<>>
      BY <3>3 DEF Part, ReadDeviceState
    <3>5. <<>> = [i \in 1..0 |-> <<>>[i]]
      OBVIOUS
    <3>6. IsPrefix(<<>>, <<>>)
      <4>1. \A i \in 1..0 : FALSE
        OBVIOUS
      <4>2. 0 \in 0..0 /\ 0 \in Nat
        OBVIOUS
      <4>. QED BY <3>5, <4>2, PrefixFacts
    <3>7. \A n \in 0..0 : n = 0
      OBVIOUS
    <3>. QED BY <3>1, <3>2, <3>4, <3>6, <3>7
  <2>3. CASE WriteDeviceState(roster).fits /\ body = WriteDeviceState(roster).bytes
    <3>1. PICK at : LaidOut(V, body, roster, at)
      BY <2>1, <2>3, StateLaidOut
    <3>2. Len(body) \in 0..Len(body)
      BY <3>1 DEF LaidOut
    <3>3. ASSUME NEW n \in 0..Len(body) PROVE IsPrefix(Part(n), Told) /\ (n = Len(body) => Part(n) = Told)
      BY <2>1, <3>1, PartFacts DEF Part, Told
    <3>. QED BY <3>2, <3>3
  <2>. QED BY <2>2, <2>3 DEF BodyInv
<1>. QED BY <1>1, <1>2 DEF BodiesArriveInPart

\* A roster that ends anywhere is read as the devices that came before its end, as they were told, if every detail is
\* short enough to be told; and a text, a message and a model's name whole or not at all (control.ts).
THEOREM BodiesArrive == ASSUME NEW V, WireTypes(V) PROVE WirePropsSpec => []BodiesArriveInPart
<1>1. WirePropsInit => BodyInv
  BY InitBody
<1>2. BodyInv /\ [WirePropsNext]_wirePropsVars => BodyInv'
  BY StepBody
<1>3. BodyInv => BodiesArriveInPart
  BY BodyHolds
<1>. QED BY <1>1, <1>2, <1>3, PTL DEF WirePropsSpec
-----------------------------------------------------------------------------
(* The bytes between the bridge and the driver: frames on end, and what a  *)
(* reader that has a part of them can tell.                                *)

Frames == [kind : Nat, port : Nat, payload : {s \in Seq(Nat) : Len(s) <= MaxPayload}]
FrameSize(f) == HeaderBytes + Len(f.payload)

\* The bytes after the first o are those of f.
Bears(s, o, f) ==
    /\ s[o + 1] = Len(f.payload) % 256 /\ s[o + 2] = (Len(f.payload) \div 256) % 256
    /\ s[o + 3] = f.port /\ s[o + 4] = f.kind
    /\ \A i \in 1..Len(f.payload) : s[o + 4 + i] = f.payload[i]

\* s is the frames of G on end, of which the k-th ends at at[k].
Framed(s, G, at) ==
    /\ s \in Seq(Nat) /\ G \in Seq(Frames) /\ at \in [0..Len(G) -> Nat]
    /\ at[0] = 0 /\ at[Len(G)] = Len(s)
    /\ \A k \in 1..Len(G) : at[k] = at[k - 1] + FrameSize(G[k]) /\ Bears(s, at[k - 1], G[k])

LEMMA SizeFactsOfFrames ==
    ASSUME NEW f \in Frames
    PROVE  /\ Len(f.payload) \in Nat /\ Len(f.payload) <= MaxPayload /\ f.payload \in Seq(Nat)
           /\ FrameSize(f) \in Nat /\ FrameSize(f) >= 4 /\ FrameSize(f) <= MaxFrame
           /\ MaxPayload \in Nat /\ MaxPayload <= 65535
<1>1. MaxPayload \in Nat /\ MaxPayload <= 65535
  BY SizesAssumption
<1>2. f.payload \in Seq(Nat) /\ Len(f.payload) <= MaxPayload
  BY DEF Frames
<1>3. Len(f.payload) \in Nat
  BY <1>2
<1>. QED BY <1>1, <1>2, <1>3 DEF FrameSize, HeaderBytes, MaxFrame

LEMMA Rising ==
    ASSUME NEW s, NEW G, NEW at, Framed(s, G, at), NEW K \in 0..Len(G)
    PROVE  /\ Len(G) \in Nat /\ Len(s) \in Nat /\ at[K] \in Nat
           /\ \A k \in 0..Len(G) - K : at[K + k] \in Nat /\ at[K] + k <= at[K + k]
           /\ at[K] <= Len(s)
<1> DEFINE N == Len(G) - K
           H == {k \in 0..N : at[K] + k <= at[K + k]}
<1>1. Len(G) \in Nat /\ Len(s) \in Nat /\ N \in Nat /\ at[K] \in Nat
  <2>1. Len(G) \in Nat /\ Len(s) \in Nat
    BY DEF Framed
  <2>2. N \in Nat /\ K \in 0..Len(G) /\ at \in [0..Len(G) -> Nat]
    BY <2>1 DEF Framed
  <2>. QED BY <2>1, <2>2
<1>2. \A k \in 0..N : K + k \in 0..Len(G) /\ at[K + k] \in Nat
  BY <1>1 DEF Framed
<1>3. 0 \in H
  BY <1>1
<1>4. ASSUME NEW k \in 1..N, k - 1 \in H PROVE k \in H
  <2>1. K + k \in 1..Len(G) /\ (K + k) - 1 = K + (k - 1)
    BY <1>1
  <2>2. G[K + k] \in Frames /\ at[K + k] = at[(K + k) - 1] + FrameSize(G[K + k])
    BY <2>1 DEF Framed
  <2>3. FrameSize(G[K + k]) \in Nat /\ FrameSize(G[K + k]) >= 4
    BY <2>2, SizeFactsOfFrames
  <2>4. at[K] + (k - 1) <= at[K + (k - 1)] /\ at[K + (k - 1)] \in Nat
    BY <1>2, <1>4
  <2>5. at[K] + k <= at[K + k]
    BY <1>1, <1>2, <2>1, <2>2, <2>3, <2>4
  <2>. QED BY <2>5
<1>5. \A k \in 0..N : at[K] + k <= at[K + k]
  <2>. HIDE DEF H
  <2>1. 0..N \subseteq H
    BY <1>1, <1>3, <1>4, Induction
  <2>. QED BY <2>1 DEF H
<1>6. at[K] <= Len(s)
  <2>1. K + N = Len(G) /\ N \in 0..N
    BY <1>1
  <2>2. at[K] + N <= at[K + N]
    BY <1>5, <2>1
  <2>. QED BY <1>1, <2>1, <2>2 DEF Framed
<1>. QED BY <1>1, <1>2, <1>5, <1>6

\* What a header says, and a reader makes of it.
LEMMA TwoBytes ==
    ASSUME NEW n \in Nat, n <= 65535
    PROVE  (n % 256) + 256 * ((n \div 256) % 256) = n
OBVIOUS

\* The first b of a sequence, and those behind them.
LEMMA Before ==
    ASSUME NEW V, NEW s \in Seq(V), NEW b \in 0..Len(s)
    PROVE  SubSeq(s, 1, b) \in Seq(V) /\ Len(SubSeq(s, 1, b)) = b /\ \A i \in 1..b : SubSeq(s, 1, b)[i] = s[i]
<1>1. Len(s) \in Nat /\ b \in Nat
  OBVIOUS
<1>2. /\ SubSeq(s, 1, b) \in Seq(V) /\ Len(SubSeq(s, 1, b)) = IF 1 <= b THEN b - 1 + 1 ELSE 0
      /\ \A i \in 1..b - 1 + 1 : SubSeq(s, 1, b)[i] = s[1 + i - 1]
  BY CutFacts
<1>3. (IF 1 <= b THEN b - 1 + 1 ELSE 0) = b /\ b - 1 + 1 = b /\ \A i \in 1..b : 1 + i - 1 = i
  BY <1>1
<1>. QED BY <1>2, <1>3

LEMMA Behind ==
    ASSUME NEW V, NEW s \in Seq(V), NEW b \in 0..Len(s)
    PROVE  LET t == SubSeq(s, b + 1, Len(s))
           IN  t \in Seq(V) /\ Len(t) = Len(s) - b /\ \A i \in 1..Len(s) - b : t[i] = s[b + i]
<1> DEFINE p == b + 1
           m == Len(s)
           t == SubSeq(s, p, m)
<1>1. m \in Nat /\ b \in Nat /\ b <= m
  OBVIOUS
<1>2. p \in Nat \ {0} /\ m \in 0..Len(s) /\ m - p + 1 = m - b /\ (p <= m <=> b < m)
  BY <1>1
<1>3. \A i \in 1..m - b : p + i - 1 = b + i
  BY <1>1
<1>. HIDE DEF p, m
<1>4. /\ t \in Seq(V) /\ Len(t) = IF p <= m THEN m - p + 1 ELSE 0
      /\ \A i \in 1..m - p + 1 : t[i] = s[p + i - 1]
  BY <1>2, CutFacts
<1>. HIDE DEF t
<1>5. Len(t) = m - b
  BY <1>1, <1>2, <1>4
<1>6. \A i \in 1..m - b : t[i] = s[b + i]
  BY <1>2, <1>3, <1>4
<1>. QED BY <1>4, <1>5, <1>6 DEF t, p, m

\* What a reader makes of z when the frame f is in front: whether that is there as a whole, and then the frame.
ReadsFront(z, f) ==
    /\ Complete(z) <=> FrameSize(f) <= Len(z)
    /\ Len(z) < HeaderBytes \/ LengthAt(z) <= MaxPayload
    /\ Complete(z) => /\ HeaderBytes + LengthAt(z) = FrameSize(f)
                      /\ Frame(z[4], z[3], SubSeq(z, HeaderBytes + 1, HeaderBytes + LengthAt(z))) = f

LEMMA FrontRead ==
    ASSUME NEW s \in Seq(Nat), NEW f \in Frames, Bears(s, 0, f), NEW m \in 0..Len(s)
    PROVE  ReadsFront(SubSeq(s, 1, m), f)
<1> DEFINE z == SubSeq(s, 1, m)
           n == Len(f.payload)
           q == SubSeq(z, 5, 4 + n)
<1>1. /\ n \in Nat /\ n <= 65535 /\ n <= MaxPayload /\ f.payload \in Seq(Nat) /\ FrameSize(f) = 4 + n
      /\ MaxPayload \in Nat /\ Len(s) \in Nat /\ m \in Nat /\ HeaderBytes = 4
  BY SizeFactsOfFrames DEF FrameSize, HeaderBytes
<1>2. f = Frame(f.kind, f.port, f.payload)
  BY DEF Frames, Frame
<1>3. z \in Seq(Nat) /\ Len(z) = m /\ \A i \in 1..m : z[i] = s[i]
  BY Before
<1>. HIDE DEF z, n
<1>4. /\ s[1] = n % 256 /\ s[2] = (n \div 256) % 256
      /\ s[3] = f.port /\ s[4] = f.kind
      /\ \A i \in 1..n : s[4 + i] = f.payload[i]
  <2>1. /\ s[0 + 1] = n % 256 /\ s[0 + 2] = (n \div 256) % 256
        /\ s[0 + 3] = f.port /\ s[0 + 4] = f.kind
        /\ \A i \in 1..n : s[0 + 4 + i] = f.payload[i]
    BY DEF Bears, n
  <2>. QED BY <2>1
<1>5. ASSUME m >= 4 PROVE LengthAt(z) = n
  <2>1. z[1] = s[1] /\ z[2] = s[2]
    <3>1. 1 \in 1..m /\ 2 \in 1..m
      BY <1>1, <1>5
    <3>. QED BY <1>3, <3>1
  <2>2. (n % 256) + 256 * ((n \div 256) % 256) = n
    BY <1>1, TwoBytes
  <2>. QED BY <1>4, <2>1, <2>2 DEF LengthAt
<1>6. Complete(z) <=> 4 + n <= m
  BY <1>1, <1>3, <1>5 DEF Complete
<1>7. Len(z) < HeaderBytes \/ LengthAt(z) <= MaxPayload
  BY <1>1, <1>3, <1>5
<1>8. ASSUME 4 + n <= m PROVE LengthAt(z) = n /\ z[4] = f.kind /\ z[3] = f.port /\ q = f.payload
  <2>1. m >= 4 /\ 3 \in 1..m /\ 4 \in 1..m /\ 4 + n \in 0..Len(z) /\ 5 \in Nat \ {0}
    BY <1>1, <1>3, <1>8
  <2>2. z[4] = f.kind /\ z[3] = f.port /\ LengthAt(z) = n
    BY <1>3, <1>4, <1>5, <2>1
  <2> DEFINE e == 4 + n
  <2>3. e \in 0..Len(z) /\ e - 5 + 1 = n /\ (5 <= e <=> n >= 1)
    BY <1>1, <2>1
  <2>. HIDE DEF e, q
  <2>4. q = SubSeq(z, 5, e)
    BY DEF q, e
  <2>5. /\ SubSeq(z, 5, e) \in Seq(Nat) /\ Len(SubSeq(z, 5, e)) = (IF 5 <= e THEN e - 5 + 1 ELSE 0)
        /\ \A i \in 1..e - 5 + 1 : SubSeq(z, 5, e)[i] = z[5 + i - 1]
    BY <1>3, <2>1, <2>3, CutFacts
  <2>6. q \in Seq(Nat) /\ Len(q) = n
    BY <1>1, <2>3, <2>4, <2>5
  <2>7. ASSUME NEW i \in 1..n PROVE q[i] = f.payload[i]
    <3>1. i \in 1..e - 5 + 1 /\ 5 + i - 1 = 4 + i /\ 4 + i \in 1..m
      BY <1>1, <1>8, <2>3
    <3>2. q[i] = z[5 + i - 1]
      BY <2>4, <2>5, <3>1
    <3>3. z[4 + i] = s[4 + i]
      BY <1>3, <3>1
    <3>. QED BY <1>4, <3>1, <3>2, <3>3
  <2>8. q = f.payload
    <3>1. Len(f.payload) = n
      BY DEF n
    <3>. QED BY <1>1, <2>6, <2>7, <3>1, SeqEqual
  <2>. QED BY <2>2, <2>8
<1>9. ASSUME Complete(z)
      PROVE  /\ HeaderBytes + LengthAt(z) = FrameSize(f)
             /\ Frame(z[4], z[3], SubSeq(z, HeaderBytes + 1, HeaderBytes + LengthAt(z))) = f
  <2>1. HeaderBytes + LengthAt(z) = 4 + n /\ HeaderBytes + 1 = 5
    BY <1>1, <1>6, <1>8, <1>9
  <2>2. z[4] = f.kind /\ z[3] = f.port /\ SubSeq(z, HeaderBytes + 1, HeaderBytes + LengthAt(z)) = f.payload
    BY <1>6, <1>8, <1>9, <2>1
  <2>3. Frame(z[4], z[3], SubSeq(z, HeaderBytes + 1, HeaderBytes + LengthAt(z))) = f
    <3>1. Frame(z[4], z[3], SubSeq(z, HeaderBytes + 1, HeaderBytes + LengthAt(z))) = Frame(f.kind, f.port, f.payload)
      BY <2>2
    <3>. QED BY <1>2, <3>1
  <2>. QED BY <1>1, <2>1, <2>3
<1>10. Complete(z) <=> FrameSize(f) <= Len(z)
  BY <1>1, <1>3, <1>6
<1>11. ReadsFront(z, f)
  BY <1>7, <1>9, <1>10 DEF ReadsFront
<1>. QED BY <1>11 DEF z

\* Some bytes are the frames of G on end.
Carries(s, G) == \E at : Framed(s, G, at)

LEMMA NothingCarried == Carries(<<>>, <<>>)
<1>1. Framed(<<>>, <<>>, [k \in 0..0 |-> 0])
  BY DEF Framed
<1>. QED BY <1>1 DEF Carries

LEMMA FourBytes ==
    ASSUME NEW a \in Nat, NEW b \in Nat, NEW c \in Nat, NEW d \in Nat
    PROVE  LET h == <<a, b, c, d>> IN h \in Seq(Nat) /\ Len(h) = 4 /\ h[1] = a /\ h[2] = b /\ h[3] = c /\ h[4] = d
OBVIOUS

LEMMA LowAndHigh ==
    ASSUME NEW n \in Nat
    PROVE  n % 256 \in Nat /\ (n \div 256) % 256 \in Nat
OBVIOUS

LEMMA Concatenated ==
    ASSUME NEW V, NEW s \in Seq(V), NEW t \in Seq(V)
    PROVE  /\ s \o t \in Seq(V) /\ Len(s \o t) = Len(s) + Len(t) /\ Len(s) \in Nat /\ Len(t) \in Nat
           /\ \A i \in 1..Len(s) : (s \o t)[i] = s[i]
           /\ \A i \in 1..Len(t) : (s \o t)[Len(s) + i] = t[i]
<1> DEFINE u == s \o t
<1>1. /\ u \in Seq(V) /\ Len(u) = Len(s) + Len(t) /\ Len(s) \in Nat /\ Len(t) \in Nat
      /\ \A i \in 1..Len(s) + Len(t) : u[i] = IF i <= Len(s) THEN s[i] ELSE t[i - Len(s)]
  BY ConcatProperties
<1>. HIDE DEF u
<1>2. ASSUME NEW i \in 1..Len(s) PROVE u[i] = s[i]
  BY <1>1
<1>3. ASSUME NEW i \in 1..Len(t) PROVE u[Len(s) + i] = t[i]
  <2>1. Len(s) + i \in 1..Len(s) + Len(t) /\ ~(Len(s) + i <= Len(s)) /\ (Len(s) + i) - Len(s) = i
    BY <1>1
  <2>. QED BY <1>1, <2>1
<1>. QED BY <1>1, <1>2, <1>3 DEF u

LEMMA EncodedFacts ==
    ASSUME NEW f \in Frames
    PROVE  Encoded(f) \in Seq(Nat) /\ Len(Encoded(f)) = FrameSize(f) /\ Bears(Encoded(f), 0, f)
<1> DEFINE n == Len(f.payload)
           h == <<n % 256, (n \div 256) % 256, f.port, f.kind>>
<1>1. n \in Nat /\ n <= MaxPayload /\ f.payload \in Seq(Nat) /\ MaxPayload \in Nat /\ f.port \in Nat /\ f.kind \in Nat
  BY SizeFactsOfFrames DEF Frames
<1>2. h \in Seq(Nat) /\ Len(h) = 4 /\ h[1] = n % 256 /\ h[2] = (n \div 256) % 256 /\ h[3] = f.port /\ h[4] = f.kind
  <2> DEFINE a == n % 256
             b == (n \div 256) % 256
             c == f.port
             d == f.kind
  <2>1. a \in Nat /\ b \in Nat /\ c \in Nat /\ d \in Nat
    BY <1>1, LowAndHigh
  <2>. HIDE DEF a, b, c, d
  <2>2. LET g == <<a, b, c, d>> IN g \in Seq(Nat) /\ Len(g) = 4 /\ g[1] = a /\ g[2] = b /\ g[3] = c /\ g[4] = d
    BY <2>1, FourBytes
  <2>. QED BY <2>2 DEF a, b, c, d
<1>3. Encoded(f) = h \o f.payload
  BY <1>1 DEF Encoded
<1> DEFINE e == Encoded(f)
<1>. HIDE DEF h, e
<1>4. /\ e \in Seq(Nat) /\ Len(e) = 4 + n
      /\ (\A i \in 1..4 : e[i] = h[i]) /\ \A i \in 1..n : e[4 + i] = f.payload[i]
  <2> DEFINE q == f.payload
  <2>1. q \in Seq(Nat) /\ Len(q) = n /\ e = h \o q /\ h \in Seq(Nat)
    BY <1>1, <1>2, <1>3 DEF e
  <2>. HIDE DEF q
  <2>2. /\ h \o q \in Seq(Nat) /\ Len(h \o q) = Len(h) + Len(q) /\ Len(h) \in Nat /\ Len(q) \in Nat
        /\ \A i \in 1..Len(h) : (h \o q)[i] = h[i]
        /\ \A i \in 1..Len(q) : (h \o q)[Len(h) + i] = q[i]
    <3>1. h \in Seq(Nat) /\ q \in Seq(Nat)
      BY <2>1
    <3>2. h \o q \in Seq(Nat) /\ Len(h \o q) = Len(h) + Len(q) /\ Len(h) \in Nat /\ Len(q) \in Nat
      BY <3>1, Concatenated
    <3>3. \A i \in 1..Len(h) : (h \o q)[i] = h[i]
      BY <3>1, Concatenated
    <3>4. \A i \in 1..Len(q) : (h \o q)[Len(h) + i] = q[i]
      BY <3>1, Concatenated
    <3>. QED BY <3>2, <3>3, <3>4
  <2>3. /\ e \in Seq(Nat) /\ Len(e) = 4 + n
        /\ (\A i \in 1..4 : e[i] = h[i]) /\ \A i \in 1..n : e[4 + i] = q[i]
    BY <1>2, <2>1, <2>2, ZenonT(60)
  <2>. QED BY <2>3 DEF q
<1>5. \A i \in 1..n : e[0 + 4 + i] = f.payload[i]
  BY <1>4
<1>6. e[0 + 1] = n % 256 /\ e[0 + 2] = (n \div 256) % 256 /\ e[0 + 3] = f.port /\ e[0 + 4] = f.kind
  <2>1. e[1] = h[1] /\ e[2] = h[2] /\ e[3] = h[3] /\ e[4] = h[4]
    BY <1>4
  <2>2. e[1] = n % 256 /\ e[2] = (n \div 256) % 256 /\ e[3] = f.port /\ e[4] = f.kind
    BY <1>2, <2>1
  <2>3. 0 + 1 = 1 /\ 0 + 2 = 2 /\ 0 + 3 = 3 /\ 0 + 4 = 4
    OBVIOUS
  <2>. HIDE DEF n
  <2>. QED BY <2>2, <2>3
<1>. QED BY <1>1, <1>4, <1>5, <1>6 DEF Bears, FrameSize, HeaderBytes, e

\* One more frame behind the others.
LEMMA CarriesMore ==
    ASSUME NEW s, NEW G, Carries(s, G), NEW f \in Frames
    PROVE  Carries(s \o Encoded(f), Append(G, f))
<1>1. PICK at : Framed(s, G, at)
  BY DEF Carries
<1> DEFINE N == Len(G)
           e == Encoded(f)
           t == s \o e
           H == Append(G, f)
           to == [k \in 0..N + 1 |-> IF k = N + 1 THEN Len(s) + FrameSize(f) ELSE at[k]]
<1>2. /\ s \in Seq(Nat) /\ G \in Seq(Frames) /\ N \in Nat /\ Len(s) \in Nat /\ at \in [0..N -> Nat]
      /\ at[0] = 0 /\ at[N] = Len(s)
      /\ \A k \in 1..N : at[k] = at[k - 1] + FrameSize(G[k]) /\ Bears(s, at[k - 1], G[k])
  BY <1>1 DEF Framed
<1>3. e \in Seq(Nat) /\ Len(e) = FrameSize(f) /\ Bears(e, 0, f) /\ FrameSize(f) \in Nat /\ FrameSize(f) = 4 + Len(f.payload)
      /\ Len(f.payload) \in Nat
  BY EncodedFacts, SizeFactsOfFrames DEF FrameSize, HeaderBytes
<1>. HIDE DEF e
<1>4. /\ t \in Seq(Nat) /\ Len(t) = Len(s) + Len(e)
      /\ (\A i \in 1..Len(s) : t[i] = s[i]) /\ \A i \in 1..Len(e) : t[Len(s) + i] = e[i]
  <2>1. s \in Seq(Nat) /\ e \in Seq(Nat)
    BY <1>2, <1>3
  <2>. QED BY <2>1, Concatenated
<1>5. H \in Seq(Frames) /\ Len(H) = N + 1 /\ H[N + 1] = f /\ \A k \in 1..N : H[k] = G[k]
  BY <1>2, AppendProperties
<1>6. /\ to \in [0..N + 1 -> Nat] /\ to[N + 1] = Len(s) + FrameSize(f)
      /\ \A k \in 0..N : to[k] = at[k]
  <2>1. \A k \in 0..N + 1 : k = N + 1 \/ k \in 0..N
    BY <1>2
  <2>2. \A k \in 0..N : k # N + 1 /\ k \in 0..N + 1
    BY <1>2
  <2>. QED BY <1>2, <1>3, <2>1, <2>2
<1>. HIDE DEF t, H, to, N
<1>7. ASSUME NEW k \in 1..N PROVE to[k] = to[k - 1] + FrameSize(H[k]) /\ Bears(t, to[k - 1], H[k])
  <2> DEFINE o == at[k - 1]
             g == G[k]
  <2>1. k \in 0..N /\ k - 1 \in 0..N
    BY <1>2
  <2>2. to[k] = at[k] /\ to[k - 1] = o /\ H[k] = g /\ at[k] = o + FrameSize(g) /\ Bears(s, o, g) /\ o \in Nat
    BY <1>2, <1>5, <1>6, <2>1
  <2>3. at[k] <= Len(s) /\ at[k] \in Nat
    BY <1>1, <1>2, <2>1, Rising DEF N
  <2>4. g \in Frames
    BY <1>2, ElementOfSeq DEF N
  <2>5. FrameSize(g) = 4 + Len(g.payload) /\ Len(g.payload) \in Nat
    BY <2>4, SizeFactsOfFrames DEF FrameSize, HeaderBytes
  <2>. HIDE DEF o, g
  <2>6. \A i \in 1..4 + Len(g.payload) : t[o + i] = s[o + i]
    <3>. SUFFICES ASSUME NEW i \in 1..4 + Len(g.payload) PROVE t[o + i] = s[o + i]
      OBVIOUS
    <3>1. at[k] = o + (4 + Len(g.payload)) /\ o \in Nat
      BY <2>2, <2>5
    <3>2. o + i \in 1..Len(s)
      BY <1>2, <2>3, <2>5, <3>1
    <3>. QED BY <1>4, <3>2
  <2>7. 1 \in 1..4 + Len(g.payload) /\ 2 \in 1..4 + Len(g.payload) /\ 3 \in 1..4 + Len(g.payload) /\ 4 \in 1..4 + Len(g.payload)
    BY <2>5
  <2>8. \A i \in 1..Len(g.payload) : t[o + 4 + i] = s[o + 4 + i]
    <3>. SUFFICES ASSUME NEW i \in 1..Len(g.payload) PROVE t[o + 4 + i] = s[o + 4 + i]
      OBVIOUS
    <3>1. 4 + i \in 1..4 + Len(g.payload) /\ o + (4 + i) = o + 4 + i
      BY <2>2, <2>5
    <3>2. t[o + (4 + i)] = s[o + (4 + i)]
      BY <2>6, <3>1
    <3>. QED BY <3>1, <3>2
  <2>9. Bears(t, o, g)
    <3>1. t[o + 1] = s[o + 1] /\ t[o + 2] = s[o + 2] /\ t[o + 3] = s[o + 3] /\ t[o + 4] = s[o + 4]
      BY <2>6, <2>7
    <3>2. \A i \in 1..Len(g.payload) : t[o + 4 + i] = g.payload[i]
      BY <2>2, <2>8 DEF Bears
    <3>3. s[o + 1] = Len(g.payload) % 256 /\ s[o + 2] = (Len(g.payload) \div 256) % 256 /\ s[o + 3] = g.port /\ s[o + 4] = g.kind
      BY <2>2 DEF Bears
    <3>. QED BY <3>1, <3>2, <3>3 DEF Bears
  <2>. QED BY <2>2, <2>9
<1>8. to[N + 1] = to[(N + 1) - 1] + FrameSize(H[N + 1]) /\ Bears(t, to[(N + 1) - 1], H[N + 1])
  <2> DEFINE o == Len(s)
  <2>1. (N + 1) - 1 = N /\ N \in 0..N /\ to[N] = Len(s)
    BY <1>2, <1>6
  <2>2. \A i \in 1..4 + Len(f.payload) : t[o + i] = e[i]
    <3>. SUFFICES ASSUME NEW i \in 1..4 + Len(f.payload) PROVE t[o + i] = e[i]
      OBVIOUS
    <3>1. i \in 1..Len(e)
      BY <1>3
    <3>. QED BY <1>4, <3>1
  <2>3. 1 \in 1..4 + Len(f.payload) /\ 2 \in 1..4 + Len(f.payload) /\ 3 \in 1..4 + Len(f.payload) /\ 4 \in 1..4 + Len(f.payload)
    BY <1>3
  <2>4. \A i \in 1..Len(f.payload) : t[o + 4 + i] = e[0 + 4 + i]
    <3>. SUFFICES ASSUME NEW i \in 1..Len(f.payload) PROVE t[o + 4 + i] = e[0 + 4 + i]
      OBVIOUS
    <3>1. 4 + i \in 1..4 + Len(f.payload) /\ o + (4 + i) = o + 4 + i /\ 4 + i = 0 + 4 + i
      BY <1>2, <1>3
    <3>2. t[o + (4 + i)] = e[4 + i]
      BY <2>2, <3>1
    <3>. QED BY <3>1, <3>2
  <2>5. t[o + 1] = e[0 + 1] /\ t[o + 2] = e[0 + 2] /\ t[o + 3] = e[0 + 3] /\ t[o + 4] = e[0 + 4]
    BY <2>2, <2>3
  <2>6. Bears(t, o, f)
    BY <1>3, <2>4, <2>5 DEF Bears
  <2>. QED BY <1>5, <1>6, <2>1, <2>6
<1>9. Framed(t, H, to)
  <2>1. \A k \in 1..N + 1 : k \in 1..N \/ k = N + 1
    BY <1>2
  <2>2. to[0] = 0 /\ to[N + 1] = Len(t)
    <3>1. 0 \in 0..N /\ to[0] = at[0]
      BY <1>2, <1>6
    <3>2. at[0] = 0 /\ Len(t) = Len(s) + FrameSize(f)
      BY <1>2, <1>3, <1>4
    <3>. QED BY <1>6, <3>1, <3>2
  <2>. QED BY <1>4, <1>5, <1>6, <1>7, <1>8, <2>1, <2>2 DEF Framed
<1>. QED BY <1>9 DEF Carries, t, H, e

\* What is behind the first frame.
LEMMA CarriesRest ==
    ASSUME NEW s, NEW G, NEW at, Framed(s, G, at), G # <<>>
    PROVE  /\ 1 \in 1..Len(G) /\ G[1] \in Frames /\ at[1] = FrameSize(G[1]) /\ at[1] <= Len(s)
           /\ Carries(SubSeq(s, at[1] + 1, Len(s)), Tail(G)) /\ G = <<G[1]>> \o Tail(G)
<1> DEFINE N == Len(G)
           b == at[1]
           t == SubSeq(s, b + 1, Len(s))
           H == Tail(G)
           to == [k \in 0..N - 1 |-> at[k + 1] - b]
<1>1. /\ s \in Seq(Nat) /\ G \in Seq(Frames) /\ N \in Nat /\ Len(s) \in Nat /\ at \in [0..N -> Nat]
      /\ at[0] = 0 /\ at[N] = Len(s)
      /\ \A k \in 1..N : at[k] = at[k - 1] + FrameSize(G[k]) /\ Bears(s, at[k - 1], G[k])
  BY DEF Framed
<1>2. 1 \in 1..N /\ 1 \in 0..N /\ N - 1 \in Nat /\ 1 - 1 = 0
  BY <1>1, EmptySeq
<1>3. G[1] \in Frames /\ b = 0 + FrameSize(G[1]) /\ b \in Nat /\ b = FrameSize(G[1])
  <2>1. G[1] \in Frames /\ b \in Nat
    BY <1>1, <1>2, ElementOfSeq
  <2>2. b = 0 + FrameSize(G[1])
    BY <1>1, <1>2
  <2>. QED BY <2>1, <2>2, SizeFactsOfFrames
<1>4. b <= Len(s) /\ \A k \in 0..N - 1 : at[1 + k] \in Nat /\ b + k <= at[1 + k]
  BY <1>2, Rising
<1>5. H \in Seq(Frames) /\ Len(H) = N - 1 /\ (\A k \in 1..N - 1 : H[k] = G[k + 1]) /\ G = <<G[1]>> \o H
  <2>1. H \in Seq(Frames) /\ Len(H) = N - 1 /\ \A k \in 1..N - 1 : H[k] = G[k + 1]
    BY <1>1, <1>2, HeadTailProperties
  <2>2. G = <<G[1]>> \o H
    <3> DEFINE q == <<G[1]>> \o H
    <3>1. <<G[1]>> \in Seq(Frames) /\ Len(<<G[1]>>) = 1 /\ <<G[1]>>[1] = G[1]
      BY <1>3
    <3>2. /\ q \in Seq(Frames) /\ Len(q) = 1 + (N - 1)
          /\ \A i \in 1..1 + (N - 1) : q[i] = IF i <= 1 THEN <<G[1]>>[i] ELSE H[i - 1]
      BY <2>1, <3>1, ConcatProperties
    <3>. HIDE DEF q, H
    <3>3. Len(q) = N /\ 1 + (N - 1) = N
      BY <1>1, <3>2
    <3>4. ASSUME NEW i \in 1..N PROVE q[i] = G[i]
      <4>1. CASE i = 1
        BY <1>1, <3>1, <3>2, <3>3, <4>1
      <4>2. CASE i # 1
        <5>1. i - 1 \in 1..N - 1 /\ (i - 1) + 1 = i /\ ~(i <= 1)
          BY <1>1, <4>2
        <5>. QED BY <2>1, <3>2, <3>3, <5>1
      <4>. QED BY <4>1, <4>2
    <3>5. q = G
      BY <1>1, <3>2, <3>3, <3>4, SeqEqual
    <3>. QED BY <3>5 DEF q
  <2>. QED BY <2>1, <2>2
<1>6. /\ t \in Seq(Nat) /\ Len(t) = Len(s) - b
      /\ \A i \in 1..Len(s) - b : t[i] = s[b + i]
  <2>1. s \in Seq(Nat) /\ b \in 0..Len(s)
    BY <1>1, <1>3, <1>4
  <2>. QED BY <2>1, Behind
<1>. HIDE DEF t, H
<1>7. ASSUME NEW k \in 0..N - 1 PROVE k + 1 = 1 + k /\ to[k] = at[1 + k] - b /\ to[k] \in Nat /\ to[k] + b = at[1 + k]
  <2>1. k + 1 = 1 + k /\ to[k] = at[k + 1] - b
    BY <1>2
  <2>2. at[1 + k] \in Nat /\ b + k <= at[1 + k]
    BY <1>4
  <2>. QED BY <1>2, <1>3, <2>1, <2>2
<1>8. to \in [0..N - 1 -> Nat]
  BY <1>7
<1>. HIDE DEF to, b
<1>9. to[0] = 0 /\ to[N - 1] = Len(t)
  <2>1. 0 \in 0..N - 1 /\ N - 1 \in 0..N - 1 /\ 1 + 0 = 1 /\ 1 + (N - 1) = N
    BY <1>2
  <2>2. to[0] = at[1] - b /\ to[N - 1] = at[N] - b
    BY <1>7, <2>1
  <2>. QED BY <1>1, <1>3, <1>6, <2>2 DEF b
<1>10. ASSUME NEW k \in 1..N - 1 PROVE to[k] = to[k - 1] + FrameSize(H[k]) /\ Bears(t, to[k - 1], H[k])
  <2> DEFINE o == at[k]
             c == to[k - 1]
             g == G[k + 1]
  <2>1. k \in 0..N - 1 /\ k - 1 \in 0..N - 1 /\ 1 + (k - 1) = k /\ k + 1 \in 1..N /\ (k + 1) - 1 = k /\ 1 + k = k + 1
        /\ k + 1 \in 0..N
    BY <1>2
  <2>2. H[k] = g /\ at[k + 1] = o + FrameSize(g) /\ Bears(s, o, g) /\ c \in Nat /\ c + b = o /\ to[k] + b = at[k + 1]
        /\ to[k] \in Nat
    BY <1>1, <1>5, <1>7, <2>1
  <2>3. at[k + 1] <= Len(s) /\ at[k + 1] \in Nat
    BY <1>1, <2>1, Rising
  <2>4. g \in Frames
    BY <1>1, <2>1, ElementOfSeq
  <2>5. FrameSize(g) = 4 + Len(g.payload) /\ Len(g.payload) \in Nat
    BY <2>4, SizeFactsOfFrames DEF FrameSize, HeaderBytes
  <2>. HIDE DEF o, g, c
  <2>6. \A i \in 1..4 + Len(g.payload) : t[c + i] = s[o + i]
    <3>. SUFFICES ASSUME NEW i \in 1..4 + Len(g.payload) PROVE t[c + i] = s[o + i]
      OBVIOUS
    <3>0. at[k + 1] = o + (4 + Len(g.payload)) /\ o \in Nat /\ c \in Nat /\ c + b = o /\ b \in Nat /\ Len(s) \in Nat
      <4>1. b \in Nat /\ c \in Nat /\ c + b = o /\ Len(s) \in Nat
        BY <1>1, <1>3, <2>2
      <4>. QED BY <2>2, <2>5, <4>1
    <3>1. c + i \in 1..Len(s) - b /\ b + (c + i) = o + i
      BY <2>3, <2>5, <3>0
    <3>. QED BY <1>6, <3>1
  <2>7. 1 \in 1..4 + Len(g.payload) /\ 2 \in 1..4 + Len(g.payload) /\ 3 \in 1..4 + Len(g.payload) /\ 4 \in 1..4 + Len(g.payload)
    BY <2>5
  <2>8. \A i \in 1..Len(g.payload) : t[c + 4 + i] = s[o + 4 + i]
    <3>. SUFFICES ASSUME NEW i \in 1..Len(g.payload) PROVE t[c + 4 + i] = s[o + 4 + i]
      OBVIOUS
    <3>1. 4 + i \in 1..4 + Len(g.payload) /\ o + (4 + i) = o + 4 + i /\ c + (4 + i) = c + 4 + i
      BY <1>3, <2>2, <2>5
    <3>2. t[c + (4 + i)] = s[o + (4 + i)]
      BY <2>6, <3>1
    <3>. QED BY <3>1, <3>2
  <2>9. Bears(t, c, g)
    <3>1. t[c + 1] = s[o + 1] /\ t[c + 2] = s[o + 2] /\ t[c + 3] = s[o + 3] /\ t[c + 4] = s[o + 4]
      BY <2>6, <2>7
    <3>2. \A i \in 1..Len(g.payload) : t[c + 4 + i] = g.payload[i]
      BY <2>2, <2>8 DEF Bears
    <3>3. s[o + 1] = Len(g.payload) % 256 /\ s[o + 2] = (Len(g.payload) \div 256) % 256 /\ s[o + 3] = g.port /\ s[o + 4] = g.kind
      BY <2>2 DEF Bears
    <3>. QED BY <3>1, <3>2, <3>3 DEF Bears
  <2>10. to[k] = c + FrameSize(g)
    <3>1. to[k] \in Nat /\ to[k] + b = o + FrameSize(g) /\ c + b = o /\ c \in Nat /\ FrameSize(g) \in Nat /\ b \in Nat
      BY <1>3, <2>2, <2>5
    <3>. QED BY <3>1
  <2>. QED BY <2>2, <2>9, <2>10 DEF c
<1>11. Framed(t, H, to)
  BY <1>5, <1>6, <1>8, <1>9, <1>10 DEF Framed
<1>. QED BY <1>2, <1>3, <1>4, <1>5, <1>11 DEF Carries, t, H, b, N

LEMMA FrontOfTwo ==
    ASSUME NEW V, NEW s \in Seq(V), NEW t \in Seq(V)
    PROVE  SubSeq(s \o t, 1, Len(s)) = s
<1> DEFINE u == s \o t
           z == SubSeq(u, 1, Len(s))
<1>1. u \in Seq(V) /\ Len(u) = Len(s) + Len(t) /\ Len(s) \in Nat /\ Len(t) \in Nat
      /\ \A i \in 1..Len(s) : u[i] = s[i]
  BY Concatenated
<1>. HIDE DEF u
<1>2. Len(s) \in 0..Len(u)
  BY <1>1
<1>3. z \in Seq(V) /\ Len(z) = Len(s) /\ \A i \in 1..Len(s) : z[i] = u[i]
  BY <1>1, <1>2, Before
<1>. HIDE DEF z
<1>4. z = s
  BY <1>1, <1>3, SeqEqual
<1>. QED BY <1>4 DEF z, u

LEMMA BehindInTwo ==
    ASSUME NEW V, NEW s \in Seq(V), NEW t \in Seq(V), NEW b \in 0..Len(s)
    PROVE  SubSeq(s \o t, b + 1, Len(s \o t)) = SubSeq(s, b + 1, Len(s)) \o t
<1> DEFINE u == s \o t
           z == SubSeq(u, b + 1, Len(u))
           y == SubSeq(s, b + 1, Len(s))
           x == y \o t
<1>1. /\ u \in Seq(V) /\ Len(u) = Len(s) + Len(t) /\ Len(s) \in Nat /\ Len(t) \in Nat
      /\ \A i \in 1..Len(s) : u[i] = s[i]
      /\ \A i \in 1..Len(t) : u[Len(s) + i] = t[i]
  BY Concatenated
<1>2. y \in Seq(V) /\ Len(y) = Len(s) - b /\ \A i \in 1..Len(s) - b : y[i] = s[b + i]
  BY Behind
<1>. HIDE DEF y
<1>3. /\ x \in Seq(V) /\ Len(x) = Len(y) + Len(t)
      /\ \A i \in 1..Len(y) : x[i] = y[i]
      /\ \A i \in 1..Len(t) : x[Len(y) + i] = t[i]
  <2>1. y \in Seq(V)
    BY <1>2
  <2>2. x \in Seq(V) /\ Len(x) = Len(y) + Len(t)
    BY <2>1, Concatenated
  <2>3. \A i \in 1..Len(y) : x[i] = y[i]
    BY <2>1, Concatenated
  <2>4. \A i \in 1..Len(t) : x[Len(y) + i] = t[i]
    BY <2>1, Concatenated
  <2>. QED BY <2>2, <2>3, <2>4
<1>. HIDE DEF u, x
<1>4. b \in 0..Len(u) /\ b \in Nat /\ b <= Len(s)
  BY <1>1
<1>5. z \in Seq(V) /\ Len(z) = Len(u) - b /\ \A i \in 1..Len(u) - b : z[i] = u[b + i]
  BY <1>1, <1>4, Behind
<1>. HIDE DEF z
<1>6. Len(z) = Len(x)
  BY <1>1, <1>2, <1>3, <1>4, <1>5
<1>7. ASSUME NEW i \in 1..Len(z) PROVE z[i] = x[i]
  <2>1. z[i] = u[b + i] /\ i \in Nat
    BY <1>1, <1>4, <1>5
  <2>2. CASE i <= Len(s) - b
    <3>1. i \in 1..Len(s) - b /\ b + i \in 1..Len(s)
      BY <1>1, <1>4, <2>2
    <3>2. i \in 1..Len(y)
      BY <1>2, <3>1
    <3>. QED BY <1>1, <1>2, <1>3, <2>1, <3>1, <3>2
  <2>3. CASE ~(i <= Len(s) - b)
    <3> DEFINE k == i - (Len(s) - b)
    <3>1. k \in 1..Len(t) /\ b + i = Len(s) + k /\ i = Len(y) + k
      BY <1>1, <1>2, <1>4, <1>5, <2>3
    <3>. HIDE DEF k
    <3>2. u[Len(s) + k] = t[k] /\ x[Len(y) + k] = t[k]
      BY <1>1, <1>3, <3>1
    <3>. QED BY <2>1, <3>1, <3>2
  <2>. QED BY <2>2, <2>3
<1>8. z = x
  BY <1>3, <1>5, <1>6, <1>7, SeqEqual
<1>. QED BY <1>8 DEF z, x, y, u

LEMMA Halves ==
    ASSUME NEW V, NEW s \in Seq(V), NEW b \in 0..Len(s)
    PROVE  SubSeq(s, 1, b) \o SubSeq(s, b + 1, Len(s)) = s
<1> DEFINE y == SubSeq(s, 1, b)
           z == SubSeq(s, b + 1, Len(s))
           x == y \o z
<1>0. Len(s) \in Nat /\ b \in Nat /\ b <= Len(s)
  OBVIOUS
<1>1. y \in Seq(V) /\ Len(y) = b /\ \A i \in 1..b : y[i] = s[i]
  BY Before
<1>2. z \in Seq(V) /\ Len(z) = Len(s) - b /\ \A i \in 1..Len(s) - b : z[i] = s[b + i]
  BY Behind
<1>. HIDE DEF y, z
<1>3. /\ x \in Seq(V) /\ Len(x) = Len(y) + Len(z)
      /\ \A i \in 1..Len(y) : x[i] = y[i]
      /\ \A i \in 1..Len(z) : x[Len(y) + i] = z[i]
  BY <1>1, <1>2, Concatenated
<1>. HIDE DEF x
<1>4. Len(x) = Len(s)
  BY <1>0, <1>1, <1>2, <1>3
<1>5. ASSUME NEW i \in 1..Len(x) PROVE x[i] = s[i]
  <2>1. CASE i <= b
    BY <1>0, <1>1, <1>3, <1>4, <2>1
  <2>2. CASE ~(i <= b)
    <3>1. PICK j \in 1..Len(s) - b : i = b + j
      <4>1. i - b \in 1..Len(s) - b /\ i = b + (i - b)
        BY <1>0, <1>4, <2>2
      <4>. QED BY <4>1
    <3>2. z[j] = s[b + j] /\ x[b + j] = z[j]
      BY <1>1, <1>2, <1>3
    <3>. QED BY <3>1, <3>2
  <2>. QED BY <2>1, <2>2
<1>6. x = s
  BY <1>3, <1>4, <1>5, SeqEqual
<1>. QED BY <1>6 DEF x, y, z

\* What a reader has of the frames that are sent to it.
LEMMA ReaderHas ==
    ASSUME NEW have \in Seq(Nat), NEW rest \in Seq(Nat), NEW G, Carries(have \o rest, G)
    PROVE  /\ Len(have) < HeaderBytes \/ LengthAt(have) <= MaxPayload
           /\ ~Complete(have) => Len(have) < MaxFrame
           /\ Complete(have) =>
                /\ G # <<>> /\ G[1] \in Frames /\ G = <<G[1]>> \o Tail(G)
                /\ Frame(have[4], have[3], SubSeq(have, HeaderBytes + 1, HeaderBytes + LengthAt(have))) = G[1]
                /\ Carries(SubSeq(have, HeaderBytes + LengthAt(have) + 1, Len(have)) \o rest, Tail(G))
<1> DEFINE s == have \o rest
           ends == HeaderBytes + LengthAt(have)
           m == Len(have)
<1>1. PICK at : Framed(s, G, at)
  BY DEF Carries
<1>2. s \in Seq(Nat) /\ Len(s) = Len(have) + Len(rest) /\ Len(have) \in Nat /\ Len(rest) \in Nat
  BY Concatenated
<1>3. SubSeq(s, 1, m) = have
  BY FrontOfTwo
<1>5. MaxFrame \in Nat /\ MaxFrame > 0 /\ HeaderBytes = 4
  BY SizesAssumption DEF MaxFrame, HeaderBytes
<1>6. CASE G = <<>>
  <2>1. Len(s) = 0
    BY <1>1, <1>6 DEF Framed
  <2>2. Len(have) = 0
    BY <1>2, <2>1
  <2>. QED BY <1>5, <2>2 DEF Complete
<1>7. CASE G # <<>>
  <2>1. /\ 1 \in 1..Len(G) /\ G[1] \in Frames /\ at[1] = FrameSize(G[1]) /\ at[1] <= Len(s)
        /\ Carries(SubSeq(s, at[1] + 1, Len(s)), Tail(G)) /\ G = <<G[1]>> \o Tail(G)
    BY <1>1, <1>7, CarriesRest
  <2>2. FrameSize(G[1]) \in Nat /\ FrameSize(G[1]) <= MaxFrame
    BY <2>1, SizeFactsOfFrames
  <2>3. m \in 0..Len(s) /\ Bears(s, 0, G[1])
    <3>1. Bears(s, at[1 - 1], G[1]) /\ at[0] = 0 /\ 1 - 1 = 0
      BY <1>1, <2>1 DEF Framed
    <3>. QED BY <1>2, <3>1
  <2>4. ReadsFront(SubSeq(s, 1, m), G[1])
    <3>. HIDE DEF s, m
    <3>. QED BY <1>2, <2>1, <2>3, FrontRead
  <2>5. /\ Complete(have) <=> at[1] <= m
        /\ Len(have) < HeaderBytes \/ LengthAt(have) <= MaxPayload
        /\ Complete(have) => /\ Frame(have[4], have[3], SubSeq(have, HeaderBytes + 1, ends)) = G[1]
                             /\ ends = FrameSize(G[1])
    BY <1>3, <2>1, <2>4 DEF ReadsFront
  <2>6. ~Complete(have) => Len(have) < MaxFrame
    BY <1>2, <1>5, <2>1, <2>2, <2>5
  <2>7. ASSUME Complete(have)
        PROVE  Carries(SubSeq(have, ends + 1, Len(have)) \o rest, Tail(G))
    <3>1. at[1] = ends /\ ends \in 0..Len(have)
      BY <1>2, <2>1, <2>2, <2>5, <2>7
    <3>. HIDE DEF ends
    <3>2. SubSeq(s, ends + 1, Len(s)) = SubSeq(have, ends + 1, Len(have)) \o rest
      BY <3>1, BehindInTwo
    <3>. QED BY <2>1, <3>1, <3>2
  <2>. QED BY <1>7, <2>1, <2>5, <2>6, <2>7
<1>. QED BY <1>6, <1>7

-----------------------------------------------------------------------------
(* What the loop of a reader makes of frames on end, however much of them  *)
(* it was given.                                                           *)

\* What a reader has read and still has, of up to N bytes.
Readings(N) == [frames : Seq(Frames), left : {s \in Seq(Nat) : Len(s) <= N}]

LEMMA VisitType ==
    ASSUME NEW N \in Nat, NEW r \in Readings(N)
    PROVE  Visit(r) \in Readings(N)
<1>1. r.frames \in Seq(Frames) /\ r.left \in Seq(Nat) /\ Len(r.left) <= N /\ Len(r.left) \in Nat
  BY DEF Readings
<1>2. CASE ~Complete(r.left)
  BY <1>2 DEF Visit
<1>3. CASE Complete(r.left)
  <2> DEFINE z == r.left
             n == LengthAt(z)
             end == HeaderBytes + n
             f == Frame(z[4], z[3], SubSeq(z, HeaderBytes + 1, end))
             t == SubSeq(z, end + 1, Len(z))
  <2>1. Visit(r) = [frames |-> Append(r.frames, f), left |-> t]
    BY <1>3 DEF Visit
  <2>2. HeaderBytes = 4 /\ Len(z) >= 4 /\ n <= MaxPayload /\ Len(z) >= 4 + n /\ MaxPayload \in Nat
    BY <1>3, SizesAssumption DEF Complete, HeaderBytes
  <2>3. z[1] \in Nat /\ z[2] \in Nat /\ z[3] \in Nat /\ z[4] \in Nat
    <3>1. 1 \in 1..Len(z) /\ 2 \in 1..Len(z) /\ 3 \in 1..Len(z) /\ 4 \in 1..Len(z)
      BY <1>1, <2>2
    <3>. QED BY <1>1, <3>1, ElementOfSeq
  <2>4. n \in Nat
    <3>1. z[1] + 256 * z[2] \in Nat
      BY <2>3
    <3>. QED BY <3>1 DEF LengthAt
  <2>. HIDE DEF z, n
  <2>5. end \in 0..Len(z) /\ end = 4 + n /\ end \in Nat
    BY <1>1, <2>2, <2>4 DEF z
  <2>6. t \in Seq(Nat) /\ Len(t) <= N
    <3>1. z \in Seq(Nat) /\ Len(z) <= N /\ Len(z) \in Nat
      BY <1>1 DEF z
    <3>. HIDE DEF end
    <3>2. t \in Seq(Nat) /\ Len(t) = Len(z) - end
      BY <2>5, <3>1, Behind
    <3>. QED BY <2>5, <3>1, <3>2
  <2>7. f \in Frames
    <3> DEFINE p == SubSeq(z, 5, end)
    <3>1. z \in Seq(Nat) /\ 5 \in Nat \ {0} /\ end - 5 + 1 = n /\ (5 <= end <=> n >= 1)
      BY <1>1, <2>4, <2>5 DEF z
    <3>. HIDE DEF end
    <3>2. p \in Seq(Nat) /\ Len(p) = IF 5 <= end THEN end - 5 + 1 ELSE 0
      BY <2>5, <3>1, CutFacts
    <3>. HIDE DEF p
    <3>3. Len(p) <= MaxPayload
      BY <2>2, <2>4, <3>1, <3>2
    <3>4. HeaderBytes + 1 = 5
      BY <2>2
    <3>5. f = Frame(z[4], z[3], p)
      BY <3>4 DEF p
    <3>. QED BY <2>3, <3>2, <3>3, <3>5 DEF Frame, Frames
  <2>. HIDE DEF f, t, end
  <2>8. Append(r.frames, f) \in Seq(Frames)
    BY <1>1, <2>7, AppendProperties
  <2>. QED BY <2>1, <2>6, <2>8 DEF Readings
<1>. QED BY <1>2, <1>3

\* The reader's loop, visit by visit.
LEMMA Visits ==
    ASSUME NEW bytes \in Seq(Nat)
    PROVE  \E g \in [0..Len(bytes) -> Readings(Len(bytes))] :
              /\ g[0] = [frames |-> <<>>, left |-> bytes]
              /\ \A n \in 1..Len(bytes) : g[n] = Visit(g[n - 1])
              /\ Parsed(bytes) = [frames |-> g[Len(bytes)].frames, left |-> g[Len(bytes)].left,
                                  ok |-> Len(g[Len(bytes)].left) < HeaderBytes \/ LengthAt(g[Len(bytes)].left) <= MaxPayload]
<1> DEFINE N == Len(bytes)
           S == Readings(N)
           a == [frames |-> <<>>, left |-> bytes]
           step == [n \in 1..N |-> [r \in S |-> Visit(r)]]
           F == CHOOSE f : f = [n \in 0..N |-> IF n = 0 THEN a ELSE Visit(f[n - 1])]
<1>1. N \in Nat /\ a \in S
  BY EmptySeq DEF Readings
<1>2. step \in [1..N -> [S -> S]]
  <2>. SUFFICES ASSUME NEW r \in S PROVE Visit(r) \in S
    OBVIOUS
  <2>. HIDE DEF N
  <2>. QED BY <1>1, VisitType
<1>3. PICK g \in [0..N -> S] : Iterates(g, N, a, step)
  <2>. HIDE DEF step, N, S, a
  <2>. QED BY <1>1, <1>2, Recursion, Zenon
<1>4. g[0] = a /\ \A n \in 1..N : g[n] = Visit(g[n - 1])
  <2>1. ASSUME NEW n \in 1..N PROVE g[n] = Visit(g[n - 1])
    <3>1. n - 1 \in 0..N
      BY <1>1
    <3>2. g[n - 1] \in S
      BY <3>1
    <3>3. step[n][g[n - 1]] = Visit(g[n - 1])
      BY <3>2
    <3>. QED BY <1>3, <3>3 DEF Iterates
  <2>. QED BY <1>3, <2>1 DEF Iterates
<1>5. g = [n \in 0..N |-> IF n = 0 THEN a ELSE Visit(g[n - 1])]
  <2>1. g = [n \in 0..N |-> g[n]]
    OBVIOUS
  <2>2. \A n \in 0..N : n = 0 \/ n \in 1..N
    BY <1>1
  <2>3. ASSUME NEW n \in 0..N PROVE g[n] = IF n = 0 THEN a ELSE Visit(g[n - 1])
    BY <1>4, <2>2
  <2>. QED BY <2>1, <2>3, Zenon
<1>6. F = [n \in 0..N |-> IF n = 0 THEN a ELSE Visit(F[n - 1])]
  BY <1>5, Zenon
<1>. HIDE DEF F
<1>7. \A n \in 0..N : F[n] = g[n]
  <2> DEFINE H == {n \in 0..N : F[n] = g[n]}
  <2>1. 0 \in H
    BY <1>1, <1>4, <1>6
  <2>2. ASSUME NEW n \in 1..N, n - 1 \in H PROVE n \in H
    <3>1. n \in 0..N /\ n # 0 /\ F[n - 1] = g[n - 1]
      BY <1>1, <2>2
    <3>2. F[n] = Visit(F[n - 1])
      BY <1>6, <3>1, Zenon
    <3>3. F[n] = g[n]
      BY <1>4, <3>1, <3>2
    <3>. QED BY <3>1, <3>3
  <2>3. 0..N \subseteq H
    <3>. HIDE DEF H
    <3>. QED BY <1>1, <2>1, <2>2, Induction
  <2>. QED BY <2>3
<1>8. F[N] = g[N]
  BY <1>1, <1>7
<1>9. Parsed(bytes) = [frames |-> F[N].frames, left |-> F[N].left,
                      ok |-> Len(F[N].left) < HeaderBytes \/ LengthAt(F[N].left) <= MaxPayload]
  BY Zenon DEF Parsed, F
<1>10. Parsed(bytes) = [frames |-> g[N].frames, left |-> g[N].left,
                       ok |-> Len(g[N].left) < HeaderBytes \/ LengthAt(g[N].left) <= MaxPayload]
  BY <1>8, <1>9
<1>. QED BY <1>4, <1>10

LEMMA ParsedType ==
    ASSUME NEW bytes \in Seq(Nat)
    PROVE  /\ Parsed(bytes).frames \in Seq(Frames)
           /\ Parsed(bytes).left \in Seq(Nat) /\ Len(Parsed(bytes).left) <= Len(bytes)
           /\ Parsed(bytes).ok \in BOOLEAN
<1>1. PICK g \in [0..Len(bytes) -> Readings(Len(bytes))] :
              Parsed(bytes) = [frames |-> g[Len(bytes)].frames, left |-> g[Len(bytes)].left,
                               ok |-> Len(g[Len(bytes)].left) < HeaderBytes \/ LengthAt(g[Len(bytes)].left) <= MaxPayload]
  BY Visits
<1>2. g[Len(bytes)] \in Readings(Len(bytes))
  OBVIOUS
<1>. QED BY <1>1, <1>2 DEF Readings

\* F are the first frames of G, and some bytes are those of the others.
Split(G, F, s) == \E R : G = F \o R /\ F \in Seq(Frames) /\ Carries(s, R)

LEMMA CarriesType == ASSUME NEW s, NEW G, Carries(s, G) PROVE s \in Seq(Nat) /\ G \in Seq(Frames)
BY DEF Carries, Framed

LEMMA VisitKeeps ==
    ASSUME NEW N \in Nat, NEW r \in Readings(N), NEW rest \in Seq(Nat), NEW G, Split(G, r.frames, r.left \o rest)
    PROVE  /\ Split(G, Visit(r).frames, Visit(r).left \o rest)
           /\ Complete(r.left) => Len(Visit(r).left) < Len(r.left)
<1>1. r.frames \in Seq(Frames) /\ r.left \in Seq(Nat) /\ Len(r.left) \in Nat
  BY DEF Readings
<1>2. PICK R : G = r.frames \o R /\ Carries(r.left \o rest, R)
  BY DEF Split
<1>3. CASE ~Complete(r.left)
  BY <1>3 DEF Visit
<1>4. CASE Complete(r.left)
  <2> DEFINE z == r.left
             end == HeaderBytes + LengthAt(z)
             t == SubSeq(z, end + 1, Len(z))
             f == R[1]
  <2>1. /\ f \in Frames /\ R = <<f>> \o Tail(R) /\ R # <<>>
        /\ Frame(z[4], z[3], SubSeq(z, HeaderBytes + 1, end)) = f
        /\ Carries(t \o rest, Tail(R))
    BY <1>1, <1>2, <1>4, ReaderHas
  <2>2. Visit(r) = [frames |-> Append(r.frames, f), left |-> t]
    BY <1>4, <2>1 DEF Visit
  <2>3. Append(r.frames, f) \in Seq(Frames) /\ Append(r.frames, f) = r.frames \o <<f>>
    BY <1>1, <2>1, AppendProperties, AppendIsConcat
  <2>4. G = Append(r.frames, f) \o Tail(R)
    <3>0. Tail(R) \in Seq(Frames)
      <4>1. Carries(t \o rest, Tail(R))
        BY <2>1
      <4>. HIDE DEF t
      <4>. QED BY <4>1, CarriesType
    <3>1. Tail(R) \in Seq(Frames) /\ <<f>> \in Seq(Frames)
      BY <2>1, <3>0
    <3>2. (r.frames \o <<f>>) \o Tail(R) = r.frames \o (<<f>> \o Tail(R))
      BY <1>1, <3>1, ConcatAssociative
    <3>. QED BY <1>2, <2>1, <2>3, <3>2
  <2>5. Len(t) < Len(z)
    <3>1. HeaderBytes = 4 /\ Len(z) >= 4 + LengthAt(z) /\ Len(z) >= 4
      BY <1>4 DEF Complete, HeaderBytes
    <3>2. LengthAt(z) \in Nat
      <4>1. 1 \in 1..Len(z) /\ 2 \in 1..Len(z)
        BY <1>1, <3>1
      <4>2. z[1] \in Nat /\ z[2] \in Nat
        BY <1>1, <4>1, ElementOfSeq
      <4>3. z[1] + 256 * z[2] \in Nat
        BY <4>2
      <4>. QED BY <4>3 DEF LengthAt
    <3>3. end \in 0..Len(z) /\ end \in Nat /\ end >= 4
      BY <1>1, <3>1, <3>2
    <3>. HIDE DEF end
    <3>4. Len(t) = Len(z) - end
      BY <1>1, <3>3, Behind
    <3>. QED BY <1>1, <3>3, <3>4
  <2>. HIDE DEF z, t, f
  <2>6. Split(G, Visit(r).frames, Visit(r).left \o rest)
    <3>1. Visit(r).frames = Append(r.frames, f) /\ Visit(r).left = t
      BY <2>2
    <3>2. Split(G, Append(r.frames, f), t \o rest)
      <4>1. Carries(t \o rest, Tail(R))
        BY <2>1
      <4>. QED BY <2>3, <2>4, <4>1 DEF Split
    <3>. QED BY <3>1, <3>2
  <2>. QED BY <2>2, <2>5, <2>6 DEF z
<1>. QED BY <1>3, <1>4

\* A reader that was sent the frames of G, and has read as far as it can.
LEMMA ParsedWell ==
    ASSUME NEW bytes \in Seq(Nat), NEW rest \in Seq(Nat), NEW G, Carries(bytes \o rest, G)
    PROVE  LET p == Parsed(bytes)
           IN  /\ p.ok = TRUE /\ Len(p.left) < MaxFrame
               /\ Split(G, p.frames, p.left \o rest)
<1> DEFINE N == Len(bytes)
<1>0. N \in Nat
  OBVIOUS
<1>1. PICK g \in [0..N -> Readings(N)] :
              /\ g[0] = [frames |-> <<>>, left |-> bytes]
              /\ \A n \in 1..N : g[n] = Visit(g[n - 1])
              /\ Parsed(bytes) = [frames |-> g[N].frames, left |-> g[N].left,
                                  ok |-> Len(g[N].left) < HeaderBytes \/ LengthAt(g[N].left) <= MaxPayload]
  BY Visits
<1> DEFINE H == {n \in 0..N : /\ Split(G, g[n].frames, g[n].left \o rest)
                              /\ Complete(g[n].left) => Len(g[n].left) <= N - n}
<1>2. 0 \in H
  <2>1. g[0].frames = <<>> /\ g[0].left = bytes
    BY <1>1
  <2>2. G = <<>> \o G /\ <<>> \in Seq(Frames)
    BY CarriesType, ConcatEmptySeq
  <2>3. Split(G, <<>>, bytes \o rest)
    BY <2>2 DEF Split
  <2>. QED BY <1>0, <2>1, <2>3
<1>3. ASSUME NEW n \in 1..N, n - 1 \in H PROVE n \in H
  <2> DEFINE r == g[n - 1]
  <2>1. /\ Split(G, r.frames, r.left \o rest) /\ n - 1 \in 0..N /\ n \in 0..N
        /\ Complete(r.left) => Len(r.left) <= N - (n - 1)
    BY <1>0, <1>3
  <2>2. r \in Readings(N) /\ g[n] = Visit(r)
    BY <1>1, <2>1
  <2>. HIDE DEF r, N
  <2>3. /\ Split(G, Visit(r).frames, Visit(r).left \o rest)
        /\ Complete(r.left) => Len(Visit(r).left) < Len(r.left)
    BY <1>0, <2>1, <2>2, VisitKeeps
  <2>4. Len(r.left) \in Nat /\ Len(Visit(r).left) \in Nat
    <3>1. Visit(r) \in Readings(N)
      BY <1>0, <2>2, VisitType
    <3>. QED BY <2>2, <3>1 DEF Readings
  <2>5. ~Complete(r.left) => Visit(r).left = r.left
    BY DEF Visit
  <2>6. Complete(Visit(r).left) => Len(Visit(r).left) <= N - n
    BY <1>0, <2>1, <2>3, <2>4, <2>5
  <2>. QED BY <2>1, <2>2, <2>3, <2>6
<1>4. N \in H
  <2>1. 0..N \subseteq H
    <3>. HIDE DEF H, N
    <3>. QED BY <1>0, <1>2, <1>3, Induction
  <2>. QED BY <1>0, <2>1
<1> DEFINE z == g[N].left
<1>5. z \in Seq(Nat) /\ Len(z) \in Nat
  BY <1>0 DEF Readings
<1>6. Split(G, g[N].frames, z \o rest) /\ (Complete(z) => Len(z) <= N - N)
  BY <1>4
<1>. HIDE DEF z
<1>7. ~Complete(z)
  <2>1. Complete(z) => Len(z) <= 0
    BY <1>0, <1>6
  <2>. QED BY <1>5, <2>1 DEF Complete, HeaderBytes
<1>8. PICK R : Carries(z \o rest, R)
  BY <1>6 DEF Split
<1>9. (Len(z) < HeaderBytes \/ LengthAt(z) <= MaxPayload) /\ Len(z) < MaxFrame
  BY <1>5, <1>7, <1>8, ReaderHas
<1>10. Parsed(bytes).frames = g[N].frames /\ Parsed(bytes).left = z /\ Parsed(bytes).ok = TRUE
  <2>1. Parsed(bytes).frames = g[N].frames /\ Parsed(bytes).left = z
    BY <1>1 DEF z
  <2>2. Parsed(bytes).ok = (Len(z) < HeaderBytes \/ LengthAt(z) <= MaxPayload)
    BY <1>1 DEF z
  <2>3. (Len(z) < HeaderBytes \/ LengthAt(z) <= MaxPayload) = TRUE
    BY <1>9
  <2>. QED BY <2>1, <2>2, <2>3
<1>. QED BY <1>6, <1>9, <1>10

\* What the driver's reader has read and still has of a chunk of up to N bytes.
Fillings(N) == [frames : Seq(Frames), left : {s \in Seq(Nat) : Len(s) <= 4 * MaxFrame}, ok : BOOLEAN,
                chunk : {s \in Seq(Nat) : Len(s) <= N}]

LEMMA FrameSizes == MaxFrame \in Nat /\ MaxFrame > 4 /\ Room \in Nat /\ Room >= 5 /\ Room <= 7 * MaxFrame /\ HeaderBytes = 4
BY SizesAssumption DEF MaxFrame, HeaderBytes

\* As much as there is room for, and what that leaves.
Portion(r) == Lesser(Len(r.chunk), 4 * MaxFrame - Len(r.left))
Portioned(r) == SubSeq(r.chunk, 1, Portion(r))
Remaining(r) == SubSeq(r.chunk, Portion(r) + 1, Len(r.chunk))
Filled(r) == Parsed(r.left \o Portioned(r))

LEMMA FillTakes ==
    ASSUME NEW N \in Nat, NEW r \in Fillings(N), r.chunk # <<>>, r.ok
    PROVE  /\ Portion(r) \in 0..Len(r.chunk) /\ (Portion(r) = 0 => Len(r.left) = 4 * MaxFrame)
           /\ Portioned(r) \in Seq(Nat) /\ Remaining(r) \in Seq(Nat) /\ Len(Remaining(r)) = Len(r.chunk) - Portion(r)
           /\ Portioned(r) \o Remaining(r) = r.chunk
           /\ r.left \o Portioned(r) \in Seq(Nat) /\ Len(r.left \o Portioned(r)) <= 4 * MaxFrame
           /\ Fill(r) = IF Portion(r) = 0 THEN [r EXCEPT !.ok = FALSE]
                        ELSE [frames |-> r.frames \o Filled(r).frames, left |-> Filled(r).left, ok |-> Filled(r).ok,
                              chunk |-> Remaining(r)]
<1> DEFINE d == r.chunk
           z == r.left
           take == Lesser(Len(d), 4 * MaxFrame - Len(z))
           b == SubSeq(d, 1, take)
           c == SubSeq(d, take + 1, Len(d))
           got == Parsed(z \o b)
<1>0. Portion(r) = take /\ Portioned(r) = b /\ Remaining(r) = c /\ Filled(r) = got
  BY DEF Portion, Portioned, Remaining, Filled
<1>1. d \in Seq(Nat) /\ z \in Seq(Nat) /\ Len(d) \in Nat /\ Len(z) \in Nat /\ Len(z) <= 4 * MaxFrame /\ d # <<>>
  BY DEF Fillings
<1>2. Len(d) >= 1
  BY <1>1, EmptySeq
<1>3. Fill(r) = IF take = 0 THEN [r EXCEPT !.ok = FALSE]
                ELSE [frames |-> r.frames \o got.frames, left |-> got.left, ok |-> got.ok, chunk |-> c]
  BY DEF Fill
<1>. HIDE DEF d, z
<1>4. take \in 0..Len(d) /\ (take = 0 => Len(z) = 4 * MaxFrame) /\ Len(z) + take <= 4 * MaxFrame /\ take \in Nat
  BY <1>1, <1>2, FrameSizes DEF Lesser
<1>. HIDE DEF take
<1>5. b \in Seq(Nat) /\ Len(b) = take
  BY <1>1, <1>4, Before
<1>6. c \in Seq(Nat) /\ Len(c) = Len(d) - take
  BY <1>1, <1>4, Behind
<1>7. b \o c = d
  BY <1>1, <1>4, Halves
<1>8. z \o b \in Seq(Nat) /\ Len(z \o b) <= 4 * MaxFrame
  <2>1. b \in Seq(Nat)
    BY <1>5
  <2>. HIDE DEF b
  <2>2. z \o b \in Seq(Nat) /\ Len(z \o b) = Len(z) + Len(b)
    BY <1>1, <2>1, Concatenated
  <2>. QED BY <1>4, <1>5, <2>2
<1>. HIDE DEF b, c, got
<1>. QED BY <1>0, <1>3, <1>4, <1>5, <1>6, <1>7, <1>8 DEF d, z

LEMMA FillType ==
    ASSUME NEW N \in Nat, NEW r \in Fillings(N)
    PROVE  Fill(r) \in Fillings(N)
<1>1. CASE r.chunk = <<>> \/ ~r.ok
  BY <1>1 DEF Fill
<1>2. CASE ~(r.chunk = <<>> \/ ~r.ok)
  <2> DEFINE take == Portion(r)
             b == Portioned(r)
             c == Remaining(r)
             got == Filled(r)
  <2>1. /\ take \in 0..Len(r.chunk) /\ c \in Seq(Nat) /\ Len(c) = Len(r.chunk) - take
        /\ r.left \o b \in Seq(Nat) /\ Len(r.left \o b) <= 4 * MaxFrame
        /\ Fill(r) = IF take = 0 THEN [r EXCEPT !.ok = FALSE]
                     ELSE [frames |-> r.frames \o got.frames, left |-> got.left, ok |-> got.ok, chunk |-> c]
    BY <1>2, FillTakes
  <2>. HIDE DEF take, b, c, got
  <2>2. CASE take = 0
    BY <2>1, <2>2 DEF Fillings
  <2>3. CASE take # 0
    <3>1. /\ got.frames \in Seq(Frames) /\ got.left \in Seq(Nat) /\ Len(got.left) <= Len(r.left \o b)
          /\ got.ok \in BOOLEAN
      BY <2>1, ParsedType DEF got, b, Filled
    <3>2. Len(got.left) \in Nat /\ Len(r.left \o b) \in Nat /\ Len(got.left) <= 4 * MaxFrame
      <4> DEFINE e == r.left \o b
      <4>1. e \in Seq(Nat) /\ Len(e) <= 4 * MaxFrame /\ Len(got.left) <= Len(e)
        BY <2>1, <3>1
      <4>. HIDE DEF e
      <4>2. Len(got.left) \in Nat /\ Len(e) \in Nat
        BY <3>1, <4>1
      <4>3. Len(got.left) <= 4 * MaxFrame
        BY <4>1, <4>2, FrameSizes
      <4>. QED BY <4>2, <4>3 DEF e
    <3>3. r.frames \o got.frames \in Seq(Frames)
      BY <3>1, ConcatProperties DEF Fillings
    <3>4. Len(c) <= N
      <4>1. Len(r.chunk) \in Nat /\ Len(r.chunk) <= N
        BY DEF Fillings
      <4>. QED BY <2>1, <4>1
    <3>. QED BY <2>1, <2>3, <3>1, <3>2, <3>3, <3>4 DEF Fillings
  <2>. QED BY <2>2, <2>3
<1>. QED BY <1>1, <1>2

LEMMA Regrouped ==
    ASSUME NEW V, NEW b \in Seq(V), NEW c \in Seq(V), NEW d \in Seq(V), NEW y, y = c \o d, NEW e, e = b \o c
    PROVE  e \o d = b \o y
BY ConcatAssociative

LEMMA SplitAgain ==
    ASSUME NEW G, NEW F \in Seq(Frames), NEW R, G = F \o R, NEW E, NEW s, Split(R, E, s)
    PROVE  Split(G, F \o E, s)
<1>1. PICK Q : R = E \o Q /\ E \in Seq(Frames) /\ Carries(s, Q)
  BY DEF Split
<1>2. Q \in Seq(Frames) /\ F \o E \in Seq(Frames)
  BY <1>1, CarriesType, ConcatProperties
<1>3. (F \o E) \o Q = F \o (E \o Q)
  BY <1>1, <1>2, ConcatAssociative
<1>. QED BY <1>1, <1>2, <1>3 DEF Split

LEMMA FillKeeps ==
    ASSUME NEW N \in Nat, NEW r \in Fillings(N), NEW rest \in Seq(Nat), NEW G, r.ok, Len(r.left) < MaxFrame,
           Split(G, r.frames, r.left \o (r.chunk \o rest))
    PROVE  /\ Fill(r).ok /\ Len(Fill(r).left) < MaxFrame
           /\ Split(G, Fill(r).frames, Fill(r).left \o (Fill(r).chunk \o rest))
           /\ r.chunk # <<>> => Len(Fill(r).chunk) < Len(r.chunk)
<1>1. CASE r.chunk = <<>>
  BY <1>1 DEF Fill
<1>2. CASE r.chunk # <<>>
  <2> DEFINE take == Portion(r)
             b == Portioned(r)
             c == Remaining(r)
             got == Filled(r)
             z == r.left
  <2>1. /\ take \in 0..Len(r.chunk) /\ (take = 0 => Len(z) = 4 * MaxFrame)
        /\ b \in Seq(Nat) /\ c \in Seq(Nat) /\ Len(c) = Len(r.chunk) - take /\ b \o c = r.chunk
        /\ z \o b \in Seq(Nat)
        /\ Fill(r) = IF take = 0 THEN [r EXCEPT !.ok = FALSE]
                     ELSE [frames |-> r.frames \o got.frames, left |-> got.left, ok |-> got.ok, chunk |-> c]
    BY <1>2, FillTakes
  <2>. HIDE DEF take, b, c
  <2>2. z \in Seq(Nat) /\ Len(z) \in Nat /\ r.frames \in Seq(Frames) /\ Len(r.chunk) \in Nat
    BY DEF Fillings
  <2>3. take # 0 /\ take \in Nat
    BY <2>1, <2>2, FrameSizes
  <2>4. PICK R : G = r.frames \o R /\ Carries(z \o (r.chunk \o rest), R)
    BY DEF Split
  <2> DEFINE e == z \o b
             y == c \o rest
  <2>5. e \in Seq(Nat) /\ y \in Seq(Nat) /\ Carries(e \o y, R)
    <3>1. e \in Seq(Nat) /\ y \in Seq(Nat)
      BY <2>1, ConcatProperties
    <3> DEFINE V == Nat
               x == r.chunk
               w == x \o rest
    <3>2. z \in Seq(V) /\ b \in Seq(V) /\ c \in Seq(V) /\ rest \in Seq(V) /\ y \in Seq(V)
      BY <2>1, <2>2, <3>1
    <3>3. x = b \o c /\ e = z \o b /\ y = c \o rest
      BY <2>1
    <3>. HIDE DEF z, V, e, y, x
    <3>4. w = b \o y
      BY <3>2, <3>3, Regrouped, SMTT(60)
    <3>. HIDE DEF w
    <3>5. e \o y = z \o w
      BY <3>2, <3>3, <3>4, Regrouped, SMTT(60)
    <3>6. Carries(z \o w, R)
      BY <2>4 DEF w, x
    <3>. QED BY <3>1, <3>5, <3>6
  <2>6. got.ok /\ Len(got.left) < MaxFrame /\ Split(R, got.frames, got.left \o y)
    <3>. HIDE DEF e, y
    <3>2. Parsed(e).ok = TRUE /\ Len(Parsed(e).left) < MaxFrame /\ Split(R, Parsed(e).frames, Parsed(e).left \o y)
      BY <2>5, ParsedWell
    <3>. QED BY <3>2 DEF e, b, Filled
  <2>7. Split(G, r.frames \o got.frames, got.left \o (c \o rest))
    <3>. HIDE DEF got, z
    <3>. QED BY <2>2, <2>4, <2>6, SplitAgain
  <2>. HIDE DEF got, z
  <2>8. Fill(r) = [frames |-> r.frames \o got.frames, left |-> got.left, ok |-> got.ok, chunk |-> c]
    BY <2>1, <2>3
  <2>9. Fill(r).ok /\ Len(Fill(r).left) < MaxFrame
    BY <2>6, <2>8
  <2>10. Split(G, Fill(r).frames, Fill(r).left \o (Fill(r).chunk \o rest))
    BY <2>7, <2>8
  <2>11. Len(Fill(r).chunk) < Len(r.chunk)
    BY <2>1, <2>2, <2>3, <2>8
  <2>. QED BY <2>9, <2>10, <2>11
<1>. QED BY <1>1, <1>2

\* The loop of the driver's reader, filling by filling.
FillsTo(g, have, chunk) ==
    /\ g \in [0..Len(chunk) -> Fillings(Len(chunk))]
    /\ g[0] = [frames |-> <<>>, left |-> have, ok |-> TRUE, chunk |-> chunk]
    /\ \A n \in 1..Len(chunk) : g[n] = Fill(g[n - 1])
    /\ DriverPush(have, chunk) = g[Len(chunk)]

LEMMA Fills ==
    ASSUME NEW have \in Seq(Nat), Len(have) <= 4 * MaxFrame, NEW chunk \in Seq(Nat)
    PROVE  \E g : FillsTo(g, have, chunk)
<1> DEFINE N == Len(chunk)
           S == Fillings(N)
           a == [frames |-> <<>>, left |-> have, ok |-> TRUE, chunk |-> chunk]
           step == [n \in 1..N |-> [r \in S |-> Fill(r)]]
           F == CHOOSE f : f = [n \in 0..N |-> IF n = 0 THEN a ELSE Fill(f[n - 1])]
<1>1. N \in Nat /\ a \in S
  BY EmptySeq DEF Fillings
<1>2. step \in [1..N -> [S -> S]]
  <2>. SUFFICES ASSUME NEW r \in S PROVE Fill(r) \in S
    OBVIOUS
  <2>. HIDE DEF N
  <2>. QED BY <1>1, FillType
<1>3. PICK g \in [0..N -> S] : Iterates(g, N, a, step)
  <2>. HIDE DEF step, N, S, a
  <2>. QED BY <1>1, <1>2, Recursion, Zenon
<1>4. g[0] = a /\ \A n \in 1..N : g[n] = Fill(g[n - 1])
  <2>1. ASSUME NEW n \in 1..N PROVE g[n] = Fill(g[n - 1])
    <3>1. n - 1 \in 0..N
      BY <1>1
    <3>2. g[n - 1] \in S
      BY <3>1
    <3>3. step[n][g[n - 1]] = Fill(g[n - 1])
      BY <3>2
    <3>. QED BY <1>3, <3>3 DEF Iterates
  <2>. QED BY <1>3, <2>1 DEF Iterates
<1>5. g = [n \in 0..N |-> IF n = 0 THEN a ELSE Fill(g[n - 1])]
  <2>1. g = [n \in 0..N |-> g[n]]
    OBVIOUS
  <2>2. \A n \in 0..N : n = 0 \/ n \in 1..N
    BY <1>1
  <2>3. ASSUME NEW n \in 0..N PROVE g[n] = IF n = 0 THEN a ELSE Fill(g[n - 1])
    BY <1>4, <2>2
  <2>. QED BY <2>1, <2>3, Zenon
<1>6. F = [n \in 0..N |-> IF n = 0 THEN a ELSE Fill(F[n - 1])]
  BY <1>5, Zenon
<1>. HIDE DEF F
<1>7. \A n \in 0..N : F[n] = g[n]
  <2> DEFINE H == {n \in 0..N : F[n] = g[n]}
  <2>1. 0 \in H
    BY <1>1, <1>4, <1>6
  <2>2. ASSUME NEW n \in 1..N, n - 1 \in H PROVE n \in H
    <3>1. n \in 0..N /\ n # 0 /\ F[n - 1] = g[n - 1]
      BY <1>1, <2>2
    <3>2. F[n] = Fill(F[n - 1])
      BY <1>6, <3>1, Zenon
    <3>3. F[n] = g[n]
      BY <1>4, <3>1, <3>2
    <3>. QED BY <3>1, <3>3
  <2>3. 0..N \subseteq H
    <3>. HIDE DEF H
    <3>. QED BY <1>1, <2>1, <2>2, Induction
  <2>. QED BY <2>3
<1>8. F[N] = g[N]
  BY <1>1, <1>7
<1>9. DriverPush(have, chunk) = F[N]
  BY Zenon DEF DriverPush, F
<1>10. FillsTo(g, have, chunk)
  <2>1. g \in [0..N -> S] /\ DriverPush(have, chunk) = g[N]
    BY <1>8, <1>9
  <2>. QED BY <1>4, <2>1 DEF FillsTo
<1>. QED BY <1>10

LEMMA DriverPushType ==
    ASSUME NEW have \in Seq(Nat), Len(have) <= 4 * MaxFrame, NEW chunk \in Seq(Nat)
    PROVE  /\ DriverPush(have, chunk).frames \in Seq(Frames) /\ DriverPush(have, chunk).ok \in BOOLEAN
           /\ DriverPush(have, chunk).left \in Seq(Nat) /\ Len(DriverPush(have, chunk).left) <= 4 * MaxFrame
<1>1. PICK g : FillsTo(g, have, chunk)
  BY Fills
<1>2. DriverPush(have, chunk) \in Fillings(Len(chunk))
  BY <1>1 DEF FillsTo
<1>. QED BY <1>2 DEF Fillings

\* However much of the frames of G the driver reads at once.
LEMMA DriverPushWell ==
    ASSUME NEW have \in Seq(Nat), Len(have) < MaxFrame, NEW chunk \in Seq(Nat), NEW rest \in Seq(Nat), NEW G,
           Carries(have \o (chunk \o rest), G)
    PROVE  LET push == DriverPush(have, chunk)
           IN  push.ok /\ Len(push.left) < MaxFrame /\ Split(G, push.frames, push.left \o rest)
<1> DEFINE N == Len(chunk)
<1>0. N \in Nat /\ Len(have) \in Nat /\ Len(have) <= 4 * MaxFrame
  BY FrameSizes
<1>1. PICK g : FillsTo(g, have, chunk)
  BY <1>0, Fills
<1>11. /\ g \in [0..N -> Fillings(N)]
       /\ g[0] = [frames |-> <<>>, left |-> have, ok |-> TRUE, chunk |-> chunk]
       /\ \A n \in 1..N : g[n] = Fill(g[n - 1])
       /\ DriverPush(have, chunk) = g[N]
  BY <1>1 DEF FillsTo
<1> DEFINE H == {n \in 0..N : /\ g[n].ok /\ Len(g[n].left) < MaxFrame
                              /\ Split(G, g[n].frames, g[n].left \o (g[n].chunk \o rest))
                              /\ g[n].chunk # <<>> => Len(g[n].chunk) <= N - n}
<1>2. 0 \in H
  <2>1. g[0].frames = <<>> /\ g[0].left = have /\ g[0].ok = TRUE /\ g[0].chunk = chunk
    BY <1>11
  <2>2. G = <<>> \o G /\ <<>> \in Seq(Frames)
    BY CarriesType, ConcatEmptySeq
  <2>3. Split(G, <<>>, have \o (chunk \o rest))
    BY <2>2 DEF Split
  <2>. QED BY <1>0, <2>1, <2>3
<1>3. ASSUME NEW n \in 1..N, n - 1 \in H PROVE n \in H
  <2> DEFINE r == g[n - 1]
  <2>1. /\ r.ok /\ Len(r.left) < MaxFrame
        /\ Split(G, r.frames, r.left \o (r.chunk \o rest)) /\ n - 1 \in 0..N /\ n \in 0..N
        /\ r.chunk # <<>> => Len(r.chunk) <= N - (n - 1)
    <3>1. n - 1 \in 0..N /\ n \in 0..N
      BY <1>0
    <3>. QED BY <1>3, <3>1
  <2>2. r \in Fillings(N) /\ g[n] = Fill(r)
    BY <1>11, <2>1
  <2>. HIDE DEF r, N
  <2>3. /\ Fill(r).ok /\ Len(Fill(r).left) < MaxFrame
        /\ Split(G, Fill(r).frames, Fill(r).left \o (Fill(r).chunk \o rest))
        /\ r.chunk # <<>> => Len(Fill(r).chunk) < Len(r.chunk)
    BY <1>0, <2>1, <2>2, FillKeeps
  <2>4. Len(r.chunk) \in Nat /\ Len(Fill(r).chunk) \in Nat
    <3>1. Fill(r) \in Fillings(N)
      BY <1>0, <2>2, FillType
    <3>. QED BY <2>2, <3>1 DEF Fillings
  <2>5. r.chunk = <<>> => Fill(r).chunk = r.chunk
    BY DEF Fill
  <2>6. Fill(r).chunk # <<>> => Len(Fill(r).chunk) <= N - n
    BY <1>0, <2>1, <2>3, <2>4, <2>5
  <2>. QED BY <2>1, <2>2, <2>3, <2>6
<1>4. N \in H
  <2>1. 0..N \subseteq H
    <3>1. N \in Nat
      BY <1>0
    <3>. HIDE DEF H, N
    <3>. QED BY <1>2, <1>3, <3>1, Induction
  <2>2. N \in 0..N
    BY <1>0
  <2>. HIDE DEF H, N
  <2>. QED BY <2>1, <2>2
<1> DEFINE e == g[N]
<1>5. e \in Fillings(N)
  <2>1. N \in 0..N
    BY <1>0
  <2>. HIDE DEF N
  <2>. QED BY <1>11, <2>1
<1>6. /\ e.ok /\ Len(e.left) < MaxFrame /\ Split(G, e.frames, e.left \o (e.chunk \o rest))
      /\ e.chunk # <<>> => Len(e.chunk) <= N - N
  BY <1>4
<1>. HIDE DEF e
<1>7. e.chunk = <<>>
  <2>1. e.chunk \in Seq(Nat) /\ Len(e.chunk) \in Nat
    BY <1>5 DEF Fillings
  <2>2. e.chunk # <<>> => Len(e.chunk) <= 0
    BY <1>0, <1>6
  <2>. QED BY <2>1, <2>2, EmptySeq
<1>8. e.chunk \o rest = rest
  BY <1>7, ConcatEmptySeq
<1>9. DriverPush(have, chunk) = e
  BY <1>11 DEF e
<1>. QED BY <1>6, <1>8, <1>9

-----------------------------------------------------------------------------
(* What an end acts on, of frames it reads a few at a time.                *)

\* One frame more, if an end acts on it.
OneMore(end, q, f) == IF ActsOn(end, f) THEN Append(q, f) ELSE q
ActsTo(g, end, frames) ==
    /\ g \in [0..Len(frames) -> Seq(Frames)] /\ g[0] = <<>>
    /\ \A n \in 1..Len(frames) : g[n] = OneMore(end, g[n - 1], frames[n])
    /\ ActedOn(end, frames) = g[Len(frames)]

LEMMA Acts ==
    ASSUME NEW end, NEW frames \in Seq(Frames)
    PROVE  \E g : ActsTo(g, end, frames)
<1> DEFINE N == Len(frames)
           S == Seq(Frames)
           a == <<>>
           step == [n \in 1..N |-> [q \in S |-> OneMore(end, q, frames[n])]]
           F == CHOOSE f : f = [n \in 0..N |->
                    IF n = 0 THEN a ELSE IF ActsOn(end, frames[n]) THEN Append(f[n - 1], frames[n]) ELSE f[n - 1]]
<1>1. N \in Nat /\ a \in S
  BY EmptySeq
<1>2. step \in [1..N -> [S -> S]]
  <2>. SUFFICES ASSUME NEW n \in 1..N, NEW q \in S PROVE OneMore(end, q, frames[n]) \in S
    OBVIOUS
  <2>1. frames[n] \in Frames
    BY ElementOfSeq
  <2>2. Append(q, frames[n]) \in S
    BY <2>1, AppendProperties
  <2>. QED BY <2>2 DEF OneMore
<1>3. PICK g \in [0..N -> S] : Iterates(g, N, a, step)
  <2>. HIDE DEF step, N, S, a
  <2>. QED BY <1>1, <1>2, Recursion, Zenon
<1>4. g[0] = a /\ \A n \in 1..N : g[n] = OneMore(end, g[n - 1], frames[n])
  <2>1. ASSUME NEW n \in 1..N PROVE g[n] = OneMore(end, g[n - 1], frames[n])
    <3>1. n - 1 \in 0..N
      BY <1>1
    <3>2. g[n - 1] \in S
      BY <3>1
    <3>3. step[n][g[n - 1]] = OneMore(end, g[n - 1], frames[n])
      BY <3>2
    <3>. QED BY <1>3, <3>3 DEF Iterates
  <2>. QED BY <1>3, <2>1 DEF Iterates
<1>5. g = [n \in 0..N |-> IF n = 0 THEN a ELSE IF ActsOn(end, frames[n]) THEN Append(g[n - 1], frames[n]) ELSE g[n - 1]]
  <2>1. g = [n \in 0..N |-> g[n]]
    OBVIOUS
  <2>2. \A n \in 0..N : n = 0 \/ n \in 1..N
    BY <1>1
  <2>3. ASSUME NEW n \in 0..N
        PROVE  g[n] = IF n = 0 THEN a ELSE IF ActsOn(end, frames[n]) THEN Append(g[n - 1], frames[n]) ELSE g[n - 1]
    BY <1>4, <2>2 DEF OneMore
  <2>. QED BY <2>1, <2>3, Zenon
<1>6. F = [n \in 0..N |-> IF n = 0 THEN a ELSE IF ActsOn(end, frames[n]) THEN Append(F[n - 1], frames[n]) ELSE F[n - 1]]
  BY <1>5, Zenon
<1>. HIDE DEF F
<1>7. \A n \in 0..N : F[n] = g[n]
  <2> DEFINE H == {n \in 0..N : F[n] = g[n]}
  <2>1. 0 \in H
    BY <1>1, <1>4, <1>6
  <2>2. ASSUME NEW n \in 1..N, n - 1 \in H PROVE n \in H
    <3>1. n \in 0..N /\ n # 0 /\ F[n - 1] = g[n - 1]
      BY <1>1, <2>2
    <3>2. F[n] = IF ActsOn(end, frames[n]) THEN Append(F[n - 1], frames[n]) ELSE F[n - 1]
      BY <1>6, <3>1, Zenon
    <3>3. F[n] = OneMore(end, F[n - 1], frames[n])
      BY <3>2 DEF OneMore
    <3>4. g[n] = OneMore(end, g[n - 1], frames[n])
      BY <1>4, <2>2
    <3>5. F[n] = g[n]
      BY <3>1, <3>3, <3>4
    <3>. QED BY <3>1, <3>5
  <2>3. 0..N \subseteq H
    <3>. HIDE DEF H
    <3>. QED BY <1>1, <2>1, <2>2, Induction
  <2>. QED BY <2>3
<1>8. F[N] = g[N]
  BY <1>1, <1>7
<1>9. ActedOn(end, frames) = F[N]
  BY Zenon DEF ActedOn, F
<1>10. ActsTo(g, end, frames)
  <2>1. g \in [0..N -> S] /\ ActedOn(end, frames) = g[N]
    BY <1>8, <1>9
  <2>. QED BY <1>4, <2>1 DEF ActsTo
<1>. QED BY <1>10

LEMMA ActedType ==
    ASSUME NEW end, NEW F \in Seq(Frames)
    PROVE  ActedOn(end, F) \in Seq(Frames) /\ (F = <<>> => ActedOn(end, F) = <<>>)
<1>1. PICK g : ActsTo(g, end, F)
  BY Acts
<1>2. Len(F) \in 0..Len(F) /\ (F = <<>> => Len(F) = 0)
  BY EmptySeq
<1>. QED BY <1>1, <1>2 DEF ActsTo

LEMMA OneMoreBehind ==
    ASSUME NEW end, NEW p \in Seq(Frames), NEW q \in Seq(Frames), NEW f \in Frames
    PROVE  OneMore(end, p \o q, f) = p \o OneMore(end, q, f)
<1>1. CASE ~ActsOn(end, f)
  BY <1>1 DEF OneMore
<1>2. CASE ActsOn(end, f)
  <2> DEFINE y == q \o <<f>>
             e == p \o q
             d == <<f>>
  <2>1. e \in Seq(Frames) /\ Append(e, f) = e \o d /\ Append(q, f) = y /\ d \in Seq(Frames)
    BY ConcatProperties, AppendIsConcat
  <2>2. y = q \o d /\ e = p \o q
    OBVIOUS
  <2>. HIDE DEF y, e, d
  <2>3. e \o d = p \o y
    BY <2>1, <2>2, Regrouped, SMTT(60)
  <2>4. Append(e, f) = p \o Append(q, f)
    BY <2>1, <2>3
  <2>. QED BY <1>2, <2>4 DEF OneMore, e
<1>. QED BY <1>1, <1>2

\* An end acts on the frames of two readings as on those of one.
LEMMA ActedTwice ==
    ASSUME NEW end, NEW F \in Seq(Frames), NEW R \in Seq(Frames)
    PROVE  ActedOn(end, F \o R) = ActedOn(end, F) \o ActedOn(end, R)
<1> DEFINE G == F \o R
           M == Len(F)
           N == Len(R)
<1>1. /\ G \in Seq(Frames) /\ Len(G) = M + N /\ M \in Nat /\ N \in Nat
      /\ \A i \in 1..M : G[i] = F[i]
      /\ \A i \in 1..N : G[M + i] = R[i]
  BY Concatenated
<1>2. PICK g : ActsTo(g, end, F)
  BY Acts
<1>3. PICK h : ActsTo(h, end, R)
  BY Acts
<1>. HIDE DEF G
<1>4. PICK k : ActsTo(k, end, G)
  BY <1>1, Acts
<1>. HIDE DEF M, N
<1>5. /\ g \in [0..M -> Seq(Frames)] /\ g[0] = <<>> /\ ActedOn(end, F) = g[M]
      /\ \A n \in 1..M : g[n] = OneMore(end, g[n - 1], F[n])
  BY <1>2 DEF ActsTo, M
<1>6. /\ h \in [0..N -> Seq(Frames)] /\ h[0] = <<>> /\ ActedOn(end, R) = h[N]
      /\ \A n \in 1..N : h[n] = OneMore(end, h[n - 1], R[n])
  BY <1>3 DEF ActsTo, N
<1>7. /\ k \in [0..M + N -> Seq(Frames)] /\ k[0] = <<>> /\ ActedOn(end, G) = k[M + N]
      /\ \A n \in 1..M + N : k[n] = OneMore(end, k[n - 1], G[n])
  BY <1>1, <1>4 DEF ActsTo
<1>8. k[M] = g[M]
  <2> DEFINE H == {n \in 0..M : k[n] = g[n]}
  <2>1. 0 \in H
    BY <1>1, <1>5, <1>7
  <2>2. ASSUME NEW n \in 1..M, n - 1 \in H PROVE n \in H
    <3>1. n \in 0..M /\ n \in 1..M + N /\ k[n - 1] = g[n - 1]
      BY <1>1, <2>2
    <3>2. k[n] = OneMore(end, k[n - 1], G[n]) /\ g[n] = OneMore(end, g[n - 1], F[n]) /\ G[n] = F[n]
      BY <1>1, <1>5, <1>7, <3>1
    <3>. QED BY <3>1, <3>2
  <2>3. 0..M \subseteq H
    <3>. HIDE DEF H
    <3>. QED BY <1>1, <2>1, <2>2, Induction
  <2>. QED BY <1>1, <2>3
<1>9. k[M + N] = g[M] \o h[N]
  <2> DEFINE p == g[M]
             H == {n \in 0..N : k[M + n] = p \o h[n]}
  <2>0. p \in Seq(Frames)
    BY <1>1, <1>5
  <2>1. 0 \in H
    <3>1. p \o h[0] = p /\ M + 0 = M
      BY <1>1, <1>6, <2>0, ConcatEmptySeq
    <3>2. 0 \in 0..N /\ k[M + 0] = p
      BY <1>1, <1>8, <3>1
    <3>3. k[M + 0] = p \o h[0]
      BY <3>1, <3>2
    <3>. QED BY <3>2, <3>3
  <2>2. ASSUME NEW n \in 1..N, n - 1 \in H PROVE n \in H
    <3>1. n \in 0..N /\ M + n \in 1..M + N /\ (M + n) - 1 = M + (n - 1) /\ n - 1 \in 0..N
      BY <1>1
    <3>2. k[M + (n - 1)] = p \o h[n - 1]
      BY <2>2
    <3>. HIDE DEF p
    <3>3. k[M + n] = OneMore(end, p \o h[n - 1], R[n])
      <4>1. k[M + n] = OneMore(end, k[(M + n) - 1], G[M + n])
        BY <1>7, <3>1
      <4>2. G[M + n] = R[n]
        BY <1>1
      <4>. QED BY <3>1, <3>2, <4>1, <4>2
    <3>4. R[n] \in Frames /\ h[n - 1] \in Seq(Frames) /\ h[n] = OneMore(end, h[n - 1], R[n])
      <4>1. R[n] \in Frames
        BY ElementOfSeq DEF N
      <4>. QED BY <1>6, <3>1, <4>1
    <3> DEFINE q == h[n - 1]
               f == R[n]
    <3>5. q \in Seq(Frames) /\ f \in Frames
      BY <3>4
    <3>. HIDE DEF q, f
    <3>6. OneMore(end, p \o q, f) = p \o OneMore(end, q, f)
      BY <2>0, <3>5, OneMoreBehind
    <3>7. k[M + n] = p \o h[n]
      BY <3>3, <3>4, <3>6 DEF q, f
    <3>. QED BY <3>1, <3>7 DEF p
  <2>3. 0..N \subseteq H
    <3>. HIDE DEF H
    <3>. QED BY <1>1, <2>1, <2>2, Induction
  <2>4. N \in 0..N
    BY <1>1
  <2>. HIDE DEF p
  <2>5. k[M + N] = p \o h[N]
    BY <2>3, <2>4
  <2>. QED BY <2>5 DEF p
<1>. QED BY <1>5, <1>6, <1>7, <1>9 DEF G

LEMMA ActedMore ==
    ASSUME NEW end, NEW F \in Seq(Frames), NEW f \in Frames
    PROVE  ActedOn(end, Append(F, f)) = OneMore(end, ActedOn(end, F), f)
<1> DEFINE G == Append(F, f)
           N == Len(F)
<1>1. G \in Seq(Frames) /\ Len(G) = N + 1 /\ N \in Nat /\ G[N + 1] = f /\ (\A i \in 1..N : G[i] = F[i])
  BY AppendProperties
<1>2. PICK g : ActsTo(g, end, F)
  BY Acts
<1>. HIDE DEF G
<1>4. PICK k : ActsTo(k, end, G)
  BY <1>1, Acts
<1>. HIDE DEF N
<1>5. /\ g \in [0..N -> Seq(Frames)] /\ g[0] = <<>> /\ ActedOn(end, F) = g[N]
      /\ \A n \in 1..N : g[n] = OneMore(end, g[n - 1], F[n])
  BY <1>2 DEF ActsTo, N
<1>7. /\ k \in [0..N + 1 -> Seq(Frames)] /\ k[0] = <<>> /\ ActedOn(end, G) = k[N + 1]
      /\ \A n \in 1..N + 1 : k[n] = OneMore(end, k[n - 1], G[n])
  BY <1>1, <1>4 DEF ActsTo
<1>8. k[N] = g[N]
  <2> DEFINE H == {n \in 0..N : k[n] = g[n]}
  <2>1. 0 \in H
    BY <1>1, <1>5, <1>7
  <2>2. ASSUME NEW n \in 1..N, n - 1 \in H PROVE n \in H
    <3>1. n \in 0..N /\ n \in 1..N + 1 /\ k[n - 1] = g[n - 1]
      BY <1>1, <2>2
    <3>2. k[n] = OneMore(end, k[n - 1], G[n]) /\ g[n] = OneMore(end, g[n - 1], F[n]) /\ G[n] = F[n]
      BY <1>1, <1>5, <1>7, <3>1
    <3>. QED BY <3>1, <3>2
  <2>3. 0..N \subseteq H
    <3>. HIDE DEF H
    <3>. QED BY <1>1, <2>1, <2>2, Induction
  <2>. QED BY <1>1, <2>3
<1>9. k[N + 1] = OneMore(end, k[N], f)
  <2>1. N + 1 \in 1..N + 1 /\ (N + 1) - 1 = N
    BY <1>1
  <2>. QED BY <1>1, <1>7, <2>1
<1>. QED BY <1>5, <1>7, <1>8, <1>9 DEF G

\* What s carries is what is owed of o when the frames of F were read.
OwedRest(end, F, o, s) == \E R : Carries(s, R) /\ ActedOn(end, R) = SubSeq(o, Len(ActedOn(end, F)) + 1, Len(o))

\* What is owed to an end, of the frames of G, before and after it reads some.
LEMMA OwedAfter ==
    ASSUME NEW end, NEW G, NEW F, NEW s, Split(G, F, s), NEW o, o = ActedOn(end, G)
    PROVE  IsPrefix(ActedOn(end, F), o) /\ OwedRest(end, F, o, s)
<1>1. PICK R : G = F \o R /\ F \in Seq(Frames) /\ Carries(s, R)
  BY DEF Split
<1>2. R \in Seq(Frames)
  BY <1>1, CarriesType
<1> DEFINE a == ActedOn(end, F)
           b == ActedOn(end, R)
<1>3. a \in Seq(Frames) /\ b \in Seq(Frames) /\ o = a \o b
  BY <1>1, <1>2, ActedType, ActedTwice
<1>. HIDE DEF a, b
<1>4. o \in Seq(Frames) /\ Len(o) = Len(a) + Len(b) /\ Len(a) \in Nat /\ Len(b) \in Nat
  BY <1>3, Concatenated
<1>5. SubSeq(o, 1, Len(a)) = a
  BY <1>3, FrontOfTwo
<1>6. SubSeq(o, Len(a) + 1, Len(o)) = b
  <2>1. Len(a) \in 0..Len(a)
    BY <1>4
  <2>2. SubSeq(a \o b, Len(a) + 1, Len(a \o b)) = SubSeq(a, Len(a) + 1, Len(a)) \o b
    BY <1>3, <2>1, BehindInTwo
  <2>3. SubSeq(a, Len(a) + 1, Len(a)) = <<>>
    <3> DEFINE y == SubSeq(a, Len(a) + 1, Len(a))
    <3>1. y \in Seq(Frames) /\ Len(y) = Len(a) - Len(a)
      BY <1>3, <2>1, Behind
    <3>. HIDE DEF y
    <3>2. y = <<>>
      BY <1>4, <3>1, EmptySeq
    <3>. QED BY <3>2 DEF y
  <2>4. <<>> \o b = b
    BY <1>3, ConcatEmptySeq
  <2>. QED BY <1>3, <2>2, <2>3, <2>4
<1>7. IsPrefix(a, o)
  <2>1. Len(a) <= Len(o)
    BY <1>4
  <2>. QED BY <1>5, <2>1 DEF IsPrefix
<1>. QED BY <1>1, <1>6, <1>7 DEF a, b, OwedRest

-----------------------------------------------------------------------------
(* What a DAW plays: the packets of a SysEx message, and what a decoder    *)
(* makes of a packet.                                                      *)

SongPackets == [type : {"sysex"}, status : Nat, data : Seq(Nat)]
           \cup [type : {"voice"}, data : {s \in Seq(Nat) : Len(s) >= 3}]
Decoders == [active : BOOLEAN, buffer : Seq(Nat)]

\* The bytes between the ends of a SysEx message, how many packets they make, and which of them packet i has last.
SysExData(m) == SubSeq(m, 2, Len(m) - 1)
PacketCount(m) ==
    LET n == Len(SysExData(m))
    IN  (n \div PacketBytes) + (IF n % PacketBytes = 0 /\ SysExData(m) # <<>> THEN 0 ELSE 1)
DataEnd(m, i) == Lesser(i * PacketBytes, Len(SysExData(m)))
StatusOf(m, i) ==
    LET last == PacketCount(m)
    IN  CASE 1 = i /\ i = last -> Whole [] 1 = i /\ i < last -> Start [] 1 < i /\ i = last -> End [] OTHER -> Continue
PacketAt(m, i) ==
    [type |-> "sysex", status |-> StatusOf(m, i), data |-> SubSeq(SysExData(m), ((i - 1) * PacketBytes) + 1, DataEnd(m, i))]

LEMMA Quotient ==
    ASSUME NEW a \in Nat, NEW b \in Nat \ {0}
    PROVE  \E q, r \in Nat : a = b * q + r /\ r < b /\ a \div b = q /\ a % b = r
<1>1. a = b * (a \div b) + (a % b)
  OBVIOUS
<1>2. a % b \in 0..b - 1
  OBVIOUS
<1>3. a \div b \in Nat
  OBVIOUS
<1> DEFINE q == a \div b
           r == a % b
<1>4. q \in Nat /\ r \in Nat /\ r < b
  <2>1. r \in 0..b - 1 /\ q \in Nat
    BY <1>2, <1>3
  <2>. HIDE DEF q, r
  <2>. QED BY <2>1
<1>5. a = b * q + r
  BY <1>1
<1>. HIDE DEF q, r
<1>6. a \div b = q /\ a % b = r
  BY DEF q, r
<1>. QED BY <1>4, <1>5, <1>6

\* The bytes of a SysEx message.
LEMMA SysExFacts ==
    ASSUME NEW m \in Songs, IsSysEx(m)
    PROVE  /\ m \in Seq(Nat) /\ Len(m) \in Nat /\ Len(m) > 1
           /\ SysExData(m) \in Seq(Nat) /\ Len(SysExData(m)) = Len(m) - 2
           /\ m = Append(<< 240 >> \o SysExData(m), 247)
<1> DEFINE d == SysExData(m)
           n == Len(m) - 1
           h == << 240 >>
           u == h \o d
           w == Append(u, 247)
<1>1. m \in Seq(Nat) /\ Len(m) \in Nat /\ Len(m) > 1 /\ m[Len(m)] = 247 /\ m[1] = 240
  BY SongsAssumption DEF IsSysEx
<1>2. n \in 0..Len(m) /\ 2 \in Nat \ {0} /\ n - 2 + 1 = Len(m) - 2 /\ n \in Nat /\ Len(m) - 2 \in Nat /\ (2 <= n <=> Len(m) > 2)
  BY <1>1
<1>. HIDE DEF n
<1>3. d \in Seq(Nat) /\ Len(d) = (IF 2 <= n THEN n - 2 + 1 ELSE 0) /\ \A i \in 1..n - 2 + 1 : d[i] = m[2 + i - 1]
  <2>1. d = SubSeq(m, 2, n)
    BY DEF SysExData, n
  <2>2. LET t == SubSeq(m, 2, n)
        IN  t \in Seq(Nat) /\ Len(t) = (IF 2 <= n THEN n - 2 + 1 ELSE 0) /\ \A i \in 1..n - 2 + 1 : t[i] = m[2 + i - 1]
    BY <1>1, <1>2, CutFacts
  <2>. HIDE DEF d
  <2>. QED BY <2>1, <2>2
<1>. HIDE DEF d
<1>4. Len(d) = Len(m) - 2
  BY <1>1, <1>2, <1>3
<1>5. h \in Seq(Nat) /\ Len(h) = 1 /\ h[1] = 240
  OBVIOUS
<1>. HIDE DEF h
<1>6. /\ u \in Seq(Nat) /\ Len(u) = Len(h) + Len(d)
      /\ \A i \in 1..Len(h) : u[i] = h[i]
      /\ \A i \in 1..Len(d) : u[Len(h) + i] = d[i]
  <2>1. d \in Seq(Nat) /\ h \in Seq(Nat)
    BY <1>3, <1>5
  <2>2. u \in Seq(Nat) /\ Len(u) = Len(h) + Len(d)
    BY <2>1, Concatenated
  <2>3. \A i \in 1..Len(h) : u[i] = h[i]
    BY <2>1, Concatenated
  <2>4. \A i \in 1..Len(d) : u[Len(h) + i] = d[i]
    BY <2>1, Concatenated
  <2>. QED BY <2>2, <2>3, <2>4
<1>. HIDE DEF u
<1>7. w \in Seq(Nat) /\ Len(w) = Len(u) + 1 /\ w[Len(u) + 1] = 247 /\ \A i \in 1..Len(u) : w[i] = u[i]
  BY <1>6, AppendProperties
<1>. HIDE DEF w
<1>8. Len(w) = Len(m) /\ Len(u) = Len(m) - 1
  BY <1>1, <1>4, <1>5, <1>6, <1>7
<1>9. ASSUME NEW i \in 1..Len(m) PROVE m[i] = w[i]
  <2>1. CASE i = 1
    <3>1. 1 \in 1..Len(u) /\ 1 \in 1..Len(h)
      BY <1>1, <1>5, <1>8
    <3>. QED BY <1>1, <1>5, <1>6, <1>7, <2>1, <3>1
  <2>2. CASE i = Len(m)
    <3>1. Len(u) + 1 = Len(m)
      BY <1>1, <1>8
    <3>. QED BY <1>1, <1>7, <2>2, <3>1
  <2>3. CASE i # 1 /\ i # Len(m)
    <3> DEFINE k == i - 1
    <3>1. k \in 1..Len(d) /\ k \in 1..n - 2 + 1 /\ 2 + k - 1 = i /\ 1 + k = i /\ i \in 1..Len(u)
      BY <1>1, <1>2, <1>4, <1>8, <2>3
    <3>. HIDE DEF k
    <3>2. d[k] = m[i]
      BY <1>3, <3>1
    <3>3. u[i] = d[k]
      BY <1>5, <1>6, <3>1
    <3>. QED BY <1>7, <3>1, <3>2, <3>3
  <2>. QED BY <2>1, <2>2, <2>3
<1>10. m = w
  BY <1>1, <1>7, <1>8, <1>9, SeqEqual
<1>. QED BY <1>1, <1>3, <1>4, <1>10 DEF w, u, h, d

\* All packets but the last are full.
LEMMA PacketCounts ==
    ASSUME NEW m \in Songs, IsSysEx(m)
    PROVE  LET n == Len(SysExData(m))
               L == PacketCount(m)
           IN  /\ n \in Nat /\ L \in Nat /\ L >= 1 /\ PacketBytes \in Nat /\ PacketBytes >= 1
               /\ n <= L * PacketBytes /\ (L > 1 => (L - 1) * PacketBytes < n)
               /\ \A i \in Nat : i < L => i * PacketBytes <= (L - 1) * PacketBytes /\ i * PacketBytes \in Nat
<1> DEFINE n == Len(SysExData(m))
           L == PacketCount(m)
           b == PacketBytes
<1>1. n \in Nat /\ b \in Nat \ {0} /\ (SysExData(m) = <<>> <=> n = 0)
  <2>1. SysExData(m) \in Seq(Nat)
    BY SysExFacts
  <2>2. n \in Nat /\ (SysExData(m) = <<>> <=> n = 0)
    BY <2>1, EmptySeq
  <2>3. b \in Nat \ {0}
    BY SizesAssumption
  <2>. QED BY <2>2, <2>3
<1>2. PICK q \in Nat, r \in Nat : n = b * q + r /\ r < b /\ n \div b = q /\ n % b = r
  BY <1>1, Quotient
<1>3. L = q + (IF r = 0 /\ n # 0 THEN 0 ELSE 1)
  BY <1>1, <1>2 DEF PacketCount
<1>. HIDE DEF n, L, b
<1>4. CASE r = 0 /\ n # 0
  <2>1. L = q /\ n = b * q
    BY <1>1, <1>2, <1>3, <1>4
  <2>2. q >= 1 /\ q * b = n /\ (q - 1) * b < n
    BY <1>1, <1>2, <1>4, <2>1
  <2>. QED BY <1>1, <1>2, <2>1, <2>2 DEF n, L, b
<1>5. CASE ~(r = 0 /\ n # 0)
  <2>1. L = q + 1 /\ L \in Nat /\ L >= 1 /\ L - 1 = q
    BY <1>2, <1>3, <1>5
  <2>2. (q + 1) * b >= n
    BY <1>1, <1>2
  <2>3. q > 0 => q * b < n
    <3>1. CASE r # 0
      BY <1>1, <1>2, <3>1
    <3>2. CASE n = 0
      BY <1>1, <1>2, <3>2
    <3>. QED BY <1>5, <3>1, <3>2
  <2>. QED BY <1>1, <2>1, <2>2, <2>3 DEF n, L, b
<1>. QED BY <1>4, <1>5

LEMMA Multiples ==
    ASSUME NEW a \in Nat, NEW b \in Nat, NEW c \in Nat, a <= c
    PROVE  a * b \in Nat /\ a * b <= c * b
OBVIOUS

\* What packet i has of a SysEx message.
LEMMA PacketData ==
    ASSUME NEW m \in Songs, IsSysEx(m), NEW i \in 1..PacketCount(m)
    PROVE  /\ (i - 1) * PacketBytes \in Nat /\ DataEnd(m, i) \in Nat /\ (i - 1) * PacketBytes <= DataEnd(m, i)
           /\ DataEnd(m, i) <= Len(SysExData(m))
           /\ i < PacketCount(m) => DataEnd(m, i) = i * PacketBytes
           /\ i = PacketCount(m) => DataEnd(m, i) = Len(SysExData(m))
           /\ PacketAt(m, i) \in SongPackets
<1> DEFINE n == Len(SysExData(m))
           L == PacketCount(m)
           b == PacketBytes
           j == i - 1
           lo == j * b
           hi == i * b
           x == SubSeq(SysExData(m), lo + 1, DataEnd(m, i))
<1>1. /\ n \in Nat /\ L \in Nat /\ L >= 1 /\ b \in Nat /\ b >= 1
      /\ n <= L * b /\ (L > 1 => (L - 1) * b < n)
  BY PacketCounts
<1>. HIDE DEF n, L, b
<1>2. i \in Nat /\ i >= 1 /\ j \in Nat /\ j <= L - 1 /\ i <= L /\ L - 1 \in Nat
  BY <1>1 DEF L
<1>. HIDE DEF j
<1>3. lo \in Nat /\ lo <= (L - 1) * b
  BY <1>1, <1>2, Multiples
<1>4. hi \in Nat /\ lo <= hi
  BY <1>1, <1>2, Multiples DEF j
<1>5. i < L => hi <= (L - 1) * b
  <2>1. i < L => i <= L - 1
    BY <1>1, <1>2
  <2>. QED BY <1>1, <1>2, <2>1, Multiples
<1>6. i = L => hi >= n
  BY <1>1
<1>7. (L - 1) * b \in Nat /\ (L - 1) * b <= n
  <2>1. (L - 1) * b \in Nat
    BY <1>1, <1>2, Multiples
  <2>2. L = 1 => (L - 1) * b = 0
    BY <1>1
  <2>. QED BY <1>1, <2>1, <2>2
<1>8. DataEnd(m, i) = IF hi < n THEN hi ELSE n
  BY DEF DataEnd, Lesser, n, b
<1>9. i < L => DataEnd(m, i) = hi
  <2>. HIDE DEF hi
  <2>. QED BY <1>1, <1>4, <1>5, <1>7, <1>8
<1>10. i = L => DataEnd(m, i) = n
  <2>. HIDE DEF hi
  <2>. QED BY <1>1, <1>4, <1>6, <1>8
<1>. HIDE DEF lo, hi
<1>11. DataEnd(m, i) \in Nat /\ lo <= DataEnd(m, i) /\ DataEnd(m, i) <= n
  BY <1>1, <1>3, <1>4, <1>7, <1>8
<1>12. x \in Seq(Nat)
  <2>1. SysExData(m) \in Seq(Nat)
    BY SysExFacts
  <2>2. lo + 1 \in Nat \ {0} /\ DataEnd(m, i) \in 0..Len(SysExData(m))
    BY <1>3, <1>11 DEF n
  <2>. QED BY <2>1, <2>2, CutFacts
<1>13. PacketAt(m, i) \in SongPackets
  <2>1. PacketAt(m, i) = [type |-> "sysex", status |-> StatusOf(m, i), data |-> x]
    BY DEF PacketAt, x, lo, j, b
  <2>2. StatusOf(m, i) \in Nat
    BY DEF StatusOf, Whole, Start, End, Continue
  <2>. HIDE DEF x
  <2>. QED BY <1>12, <2>1, <2>2 DEF SongPackets
<1>. QED BY <1>2, <1>3, <1>9, <1>10, <1>11, <1>13 DEF n, L, lo, hi, j, b

\* A message in packets.
LEMMA Packing ==
    ASSUME NEW m \in Songs
    PROVE  /\ PacketsOf(m) \in Seq(SongPackets) /\ PacketsOf(m) # <<>>
           /\ IsSysEx(m) => /\ Len(PacketsOf(m)) = PacketCount(m)
                            /\ \A i \in 1..PacketCount(m) : PacketsOf(m)[i] = PacketAt(m, i)
           /\ ~IsSysEx(m) => PacketsOf(m) = <<[type |-> "voice", data |-> m \o <<0, 0>>]>>
<1>1. CASE IsSysEx(m)
  <2> DEFINE L == PacketCount(m)
             q == [i \in 1..L |-> PacketAt(m, i)]
  <2>1. PacketsOf(m) = q
    BY <1>1 DEF PacketsOf, PacketAt, PacketCount, StatusOf, DataEnd, SysExData
  <2>2. L \in Nat /\ L >= 1
    BY <1>1, PacketCounts
  <2>3. \A i \in 1..L : PacketAt(m, i) \in SongPackets
    BY <1>1, PacketData
  <2>. HIDE DEF L
  <2>4. q \in Seq(SongPackets) /\ Len(q) = L /\ \A i \in 1..L : q[i] = PacketAt(m, i)
    BY <2>2, <2>3
  <2>. HIDE DEF q
  <2>5. q # <<>>
    BY <2>2, <2>4, EmptySeq
  <2>. QED BY <1>1, <2>1, <2>4, <2>5 DEF L
<1>2. CASE ~IsSysEx(m)
  <2> DEFINE z == <<0, 0>>
             x == m \o z
             p == [type |-> "voice", data |-> x]
  <2>1. PacketsOf(m) = <<p>>
    BY <1>2 DEF PacketsOf
  <2>2. m \in Seq(Nat) /\ m # <<>>
    BY SongsAssumption
  <2>3. z \in Seq(Nat) /\ Len(z) = 2
    OBVIOUS
  <2>4. Len(m) \in Nat /\ Len(m) >= 1
    BY <2>2, EmptySeq
  <2>. HIDE DEF z
  <2>5. x \in Seq(Nat) /\ Len(x) = Len(m) + Len(z)
    BY <2>2, <2>3, Concatenated
  <2>. HIDE DEF x
  <2>6. Len(x) >= 3
    BY <2>3, <2>4, <2>5
  <2>7. p \in SongPackets
    BY <2>5, <2>6 DEF SongPackets
  <2>. HIDE DEF p
  <2>8. <<p>> \in Seq(SongPackets) /\ <<p>> # <<>>
    BY <2>7
  <2>. QED BY <1>2, <2>1, <2>8 DEF p, x, z
<1>. QED BY <1>1, <1>2

LEMMA MessageLengths ==
    ASSUME NEW status \in Nat
    PROVE  Midi1MessageLength(status) \in 0..3
BY DEF Midi1MessageLength

\* Whatever the packet, there is a decoder after it, and at most a message.
LEMMA Decodes ==
    ASSUME NEW d \in Decoders, NEW p \in SongPackets
    PROVE  Decode(d, p).decoder \in Decoders /\ Decode(d, p).messages \in Seq(Seq(Nat))
<1>0. \A x \in Seq(Nat) : <<x>> \in Seq(Seq(Nat))
  OBVIOUS
<1>00. <<>> \in Seq(Seq(Nat)) /\ NewDecoder \in Decoders
  BY DEF NewDecoder, Decoders
<1>1. CASE p.type = "sysex"
  <2> DEFINE begun == IF p.status \in {Whole, Start} THEN [active |-> TRUE, buffer |-> << 240 >>] ELSE d
             full == begun.buffer \o p.data
             w == Append(full, 247)
  <2>1. begun \in Decoders /\ begun.buffer \in Seq(Nat) /\ p.data \in Seq(Nat)
    <3>1. << 240 >> \in Seq(Nat)
      OBVIOUS
    <3>2. begun \in Decoders
      BY <3>1 DEF Decoders
    <3>3. p.data \in Seq(Nat)
      BY <1>1 DEF SongPackets
    <3>. QED BY <3>2, <3>3 DEF Decoders
  <2>2. Decode(d, p) = DecodeSysEx7(d, p)
    BY <1>1 DEF Decode
  <2>. HIDE DEF begun
  <2>3. full \in Seq(Nat)
    BY <2>1, Concatenated
  <2>. HIDE DEF full
  <2>4. w \in Seq(Nat)
    BY <2>3, AppendProperties
  <2>. HIDE DEF w
  <2>5. DecodeSysEx7(d, p) \in {[decoder |-> d, messages |-> <<>>], [decoder |-> NewDecoder, messages |-> <<>>],
             [decoder |-> NewDecoder, messages |-> <<w>>], [decoder |-> [active |-> TRUE, buffer |-> full], messages |-> <<>>]}
    BY DEF DecodeSysEx7, w, full, begun
  <2>6. [active |-> TRUE, buffer |-> full] \in Decoders
    BY <2>3 DEF Decoders
  <2>7. Decode(d, p).decoder \in Decoders
    <3>1. DecodeSysEx7(d, p).decoder \in {d, NewDecoder, [active |-> TRUE, buffer |-> full]}
      BY DEF DecodeSysEx7, full, begun
    <3>. QED BY <1>00, <2>2, <2>6, <3>1
  <2>8. Decode(d, p).messages = <<>> \/ Decode(d, p).messages = <<w>>
    BY <2>2, <2>5
  <2>9. <<w>> \in Seq(Seq(Nat))
    BY <1>0, <2>4
  <2>. QED BY <1>00, <2>7, <2>8, <2>9
<1>2. CASE p.type # "sysex"
  <2>1. p.data \in Seq(Nat) /\ Len(p.data) >= 3 /\ Len(p.data) \in Nat
    BY <1>2 DEF SongPackets
  <2> DEFINE n == Midi1MessageLength(p.data[1])
             x == SubSeq(p.data, 1, n)
  <2>2. p.data[1] \in Nat
    <3>1. 1 \in 1..Len(p.data)
      BY <2>1
    <3>. QED BY <2>1, <3>1, ElementOfSeq
  <2>3. n \in 0..3
    BY <2>2, MessageLengths
  <2>4. Decode(d, p) \in {[decoder |-> d, messages |-> <<x>>], [decoder |-> d, messages |-> <<>>]}
    BY <1>2 DEF Decode
  <2>. HIDE DEF n
  <2>5. x \in Seq(Nat)
    BY <2>1, <2>3, Before
  <2>. HIDE DEF x
  <2>7. Decode(d, p).decoder \in Decoders
    BY <2>4
  <2>8. Decode(d, p).messages = <<>> \/ Decode(d, p).messages = <<x>>
    BY <2>4
  <2>9. <<x>> \in Seq(Seq(Nat))
    BY <1>0, <2>5
  <2>. QED BY <1>00, <2>7, <2>8, <2>9
<1>. QED BY <1>1, <1>2

-----------------------------------------------------------------------------
(* What the link holds, and what a write, a drain and a read leave in it.  *)

\* A part of N bytes of the scratch buffer, and what waits of it.
Ranges(N) == {r \in [from : Nat \ {0}, to : Nat] : r.from <= r.to /\ r.to <= N}
Wires == {s \in Seq(Nat) : Len(s) <= Room}
Pending(q, s) == IF q = <<>> THEN <<>> ELSE SubSeq(s, q[1].from, q[1].to)

FramingTypes ==
    /\ conn \in BOOLEAN
    /\ down \in Wires /\ up \in Wires
    /\ waiting \in Seq(Ranges(Len(scratch)))
    /\ scratch \in Seq(Nat) /\ reader \in Seq(Nat)
    /\ held \in {s \in Seq(Nat) : Len(s) <= 4 * MaxFrame}
    /\ dec \in Decoders /\ daw \in Seq(SongPackets)

LEMMA TakenFacts ==
    ASSUME NEW wire \in Wires, NEW bytes \in Seq(Nat)
    PROVE  LET t == Taken(wire, bytes)
           IN  /\ t \in Seq(Nat) /\ Len(t) \in 0..Len(bytes) /\ t = SubSeq(bytes, 1, Len(t))
               /\ wire \o t \in Wires /\ Len(wire \o t) = Len(wire) + Len(t)
               /\ Len(bytes) <= Room - Len(wire) => Len(t) = Len(bytes)
<1> DEFINE k == Lesser(Room - Len(wire), Len(bytes))
           t == SubSeq(bytes, 1, k)
           w == wire \o t
<1>1. wire \in Seq(Nat) /\ Len(wire) \in Nat /\ Len(bytes) \in Nat /\ Len(wire) <= Room
  BY DEF Wires
<1>2. k \in 0..Len(bytes) /\ k \in Nat /\ Len(wire) + k <= Room /\ (Len(bytes) <= Room - Len(wire) => k = Len(bytes))
  BY <1>1, FrameSizes DEF Lesser
<1>. HIDE DEF k
<1>3. t \in Seq(Nat) /\ Len(t) = k
  BY <1>2, Before
<1>4. Taken(wire, bytes) = t
  BY DEF Taken, k
<1>5. t = SubSeq(bytes, 1, Len(t))
  BY <1>3
<1>. HIDE DEF t
<1>6. w \in Seq(Nat) /\ Len(w) = Len(wire) + Len(t)
  BY <1>1, <1>3, Concatenated
<1>. HIDE DEF w
<1>7. w \in Wires
  BY <1>2, <1>3, <1>6 DEF Wires
<1>. QED BY <1>2, <1>3, <1>4, <1>5, <1>6, <1>7 DEF w

\* The scratch buffer after a frame is put in it.
LEMMA OverFacts ==
    ASSUME NEW old \in Seq(Nat), NEW bytes \in Seq(Nat)
    PROVE  /\ Over(old, bytes) \in Seq(Nat)
           /\ Len(old) <= Len(Over(old, bytes)) /\ Len(bytes) <= Len(Over(old, bytes))
           /\ \A i \in 1..Len(bytes) : Over(old, bytes)[i] = bytes[i]
<1> DEFINE n == Len(bytes)
           m == Len(old)
           t == SubSeq(old, n + 1, m)
           s == bytes \o t
<1>1. n \in Nat /\ m \in Nat /\ n + 1 \in Nat \ {0} /\ m \in 0..Len(old)
  OBVIOUS
<1>2. t \in Seq(Nat) /\ Len(t) = IF n + 1 <= m THEN m - (n + 1) + 1 ELSE 0
  BY <1>1, CutFacts
<1>. HIDE DEF t
<1>3. s \in Seq(Nat) /\ Len(s) = Len(bytes) + Len(t)
  BY <1>2, Concatenated
<1>4. \A i \in 1..Len(bytes) : s[i] = bytes[i]
  BY <1>2, Concatenated
<1>5. Over(old, bytes) = s
  BY DEF Over, t, n, m
<1>. HIDE DEF s
<1>6. Len(s) = n + Len(t)
  BY <1>3
<1>. HIDE DEF n, m
<1>7. m <= Len(s) /\ n <= Len(s)
  BY <1>1, <1>2, <1>6
<1>. QED BY <1>3, <1>4, <1>5, <1>7 DEF n, m

LEMMA MoreRanges ==
    ASSUME NEW N \in Nat, NEW M \in Nat, N <= M, NEW q \in Seq(Ranges(N))
    PROVE  q \in Seq(Ranges(M))
<1>1. Ranges(N) \subseteq Ranges(M)
  BY DEF Ranges
<1>2. Len(q) \in Nat /\ q = [i \in 1..Len(q) |-> q[i]] /\ \A i \in 1..Len(q) : q[i] \in Ranges(N)
  BY ElementOfSeq
<1>. QED BY <1>1, <1>2

\* A write is in the socket, in part in the buffer, or in the buffer behind another.
LEMMA WriteType ==
    ASSUME NEW wire \in Wires, NEW queue \in Seq(Ranges(Len(scratch))), NEW bytes \in Seq(Nat),
           scratch \in Seq(Nat), Write(wire, queue, bytes)
    PROVE  down' \in Wires /\ scratch' \in Seq(Nat) /\ waiting' \in Seq(Ranges(Len(scratch')))
<1> DEFINE t == Taken(wire, bytes)
           n == IF queue = <<>> THEN Len(t) ELSE 0
           s == Over(scratch, bytes)
           r == [from |-> n + 1, to |-> Len(bytes)]
<1>1. /\ down' = wire \o SubSeq(bytes, 1, n)
      /\ waiting' = IF n = Len(bytes) THEN queue ELSE Append(queue, r)
      /\ scratch' = s
  BY DEF Write
<1>2. t \in Seq(Nat) /\ Len(t) \in 0..Len(bytes) /\ t = SubSeq(bytes, 1, Len(t)) /\ wire \o t \in Wires
  BY TakenFacts
<1>3. s \in Seq(Nat) /\ Len(scratch) <= Len(s) /\ Len(bytes) <= Len(s)
  BY OverFacts
<1>4. Len(bytes) \in Nat /\ Len(s) \in Nat /\ Len(scratch) \in Nat
  BY <1>3
<1>. HIDE DEF s
<1>5. down' \in Wires
  <2>1. CASE queue = <<>>
    BY <1>1, <1>2, <2>1
  <2>2. CASE queue # <<>>
    <3>1. SubSeq(bytes, 1, 0) = <<>>
      <4> DEFINE z == SubSeq(bytes, 1, 0)
      <4>1. 0 \in 0..Len(bytes)
        BY <1>4
      <4>2. z \in Seq(Nat) /\ Len(z) = 0
        BY <4>1, Before
      <4>. HIDE DEF z
      <4>3. z = <<>>
        BY <4>2, EmptySeq
      <4>. QED BY <4>3 DEF z
    <3>2. wire \o <<>> = wire
      <4>1. wire \in Seq(Nat)
        BY DEF Wires
      <4>. QED BY <4>1, ConcatEmptySeq
    <3>. QED BY <1>1, <2>2, <3>1, <3>2
  <2>. QED BY <2>1, <2>2
<1>6. n \in 0..Len(bytes)
  BY <1>2, <1>4
<1>. HIDE DEF n, t
<1>7. waiting' \in Seq(Ranges(Len(s)))
  <2>1. queue \in Seq(Ranges(Len(s)))
    BY <1>3, <1>4, MoreRanges
  <2>2. n # Len(bytes) => r \in Ranges(Len(s))
    BY <1>3, <1>4, <1>6 DEF Ranges
  <2>. HIDE DEF r
  <2>3. n # Len(bytes) => Append(queue, r) \in Seq(Ranges(Len(s)))
    BY <2>1, <2>2, AppendProperties
  <2>. QED BY <1>1, <2>1, <2>3
<1>. QED BY <1>1, <1>3, <1>5, <1>7

\* With nothing waiting, what is on the wire and what waits is what was, and the frame behind it.
LEMMA WriteWell ==
    ASSUME NEW wire \in Wires, NEW bytes \in Seq(Nat), scratch \in Seq(Nat), Write(wire, <<>>, bytes)
    PROVE  Len(waiting') <= 1 /\ down' \o Pending(waiting', scratch') = wire \o bytes
<1> DEFINE t == Taken(wire, bytes)
           n == Len(t)
           m == Len(bytes)
           s == Over(scratch, bytes)
           r == [from |-> n + 1, to |-> m]
           c == SubSeq(bytes, n + 1, m)
<1>1. /\ down' = wire \o SubSeq(bytes, 1, n)
      /\ waiting' = IF n = m THEN <<>> ELSE Append(<<>>, r)
      /\ scratch' = s
  BY DEF Write
<1>2. t \in Seq(Nat) /\ n \in 0..m /\ t = SubSeq(bytes, 1, n) /\ m \in Nat /\ n \in Nat
  BY TakenFacts
<1>3. s \in Seq(Nat) /\ m <= Len(s) /\ \A i \in 1..m : s[i] = bytes[i]
  BY OverFacts
<1>4. wire \in Seq(Nat)
  BY DEF Wires
<1>. HIDE DEF s, n
<1>5. CASE n = m
  <2>1. t = bytes
    <3>1. Len(bytes) = m /\ SubSeq(bytes, 1, m) = bytes
      BY SubSeqFull
    <3>. QED BY <1>2, <1>5, <3>1
  <2>2. waiting' = <<>> /\ Pending(waiting', scratch') = <<>> /\ down' = wire \o bytes
    BY <1>1, <1>2, <1>5, <2>1 DEF Pending
  <2>3. (wire \o bytes) \o <<>> = wire \o bytes
    <3> DEFINE e == wire \o bytes
    <3>1. e \in Seq(Nat)
      BY <1>4, Concatenated
    <3>. HIDE DEF e
    <3>2. e \o <<>> = e
      BY <3>1, ConcatEmptySeq
    <3>. QED BY <3>2 DEF e
  <2>4. Len(waiting') <= 1
    BY <2>2
  <2>5. down' \o Pending(waiting', scratch') = down'
    <3>1. down' \o Pending(waiting', scratch') = (wire \o bytes) \o <<>>
      BY <2>2
    <3>. QED BY <2>2, <2>3, <3>1
  <2>. QED BY <2>2, <2>4, <2>5
<1>6. CASE n # m
  <2>1. waiting' = <<r>>
    BY <1>1, <1>6
  <2>2. Len(waiting') = 1 /\ waiting' # <<>> /\ waiting'[1].from = n + 1 /\ waiting'[1].to = m
    BY <2>1
  <2>3. Pending(waiting', scratch') = SubSeq(s, n + 1, m)
    BY <1>1, <2>2 DEF Pending
  <2>4. SubSeq(s, n + 1, m) = c
    <3> DEFINE x == SubSeq(s, n + 1, m)
    <3>0. Len(s) \in Nat /\ m \in 0..Len(bytes)
      BY <1>3
    <3>1. n + 1 \in Nat \ {0} /\ m \in 0..Len(s) /\ m \in 0..Len(bytes) /\ m - (n + 1) + 1 = m - n
      <4>. HIDE DEF m
      <4>. QED BY <1>2, <1>3, <3>0
    <3>2. x \in Seq(Nat) /\ Len(x) = IF n + 1 <= m THEN m - (n + 1) + 1 ELSE 0
      BY <1>3, <3>1, CutFacts
    <3>3. \A i \in 1..m - n : x[i] = s[n + 1 + i - 1]
      BY <1>3, <3>1, CutFacts
    <3>4. c \in Seq(Nat) /\ Len(c) = IF n + 1 <= m THEN m - (n + 1) + 1 ELSE 0
      BY <1>3, <3>1, CutFacts
    <3>5. \A i \in 1..m - n : c[i] = bytes[n + 1 + i - 1]
      BY <1>3, <3>1, CutFacts
    <3>. HIDE DEF x, c, m
    <3>6. Len(x) = m - n /\ Len(c) = m - n
      BY <1>2, <1>6, <3>2, <3>4
    <3>7. ASSUME NEW i \in 1..m - n PROVE x[i] = c[i]
      <4>1. n + 1 + i - 1 \in 1..m
        BY <1>2, <1>6
      <4>. QED BY <1>3, <3>3, <3>5, <4>1
    <3>8. x = c
      BY <3>2, <3>4, <3>6, <3>7, SeqEqual
    <3>. QED BY <3>8 DEF x
  <2>5. t \o c = bytes
    <3>1. n \in 0..Len(bytes)
      BY <1>2
    <3>2. SubSeq(bytes, 1, n) \o c = bytes
      BY <3>1, Halves
    <3>. QED BY <1>2, <3>2
  <2>6. c \in Seq(Nat)
    <3>1. n \in 0..Len(bytes)
      BY <1>2
    <3>. QED BY <3>1, Behind
  <2> DEFINE e == wire \o t
  <2>7. e \o c = wire \o bytes
    <3> DEFINE V == Nat
    <3>1. wire \in Seq(V) /\ t \in Seq(V) /\ c \in Seq(V) /\ bytes = t \o c /\ e = wire \o t
      BY <1>2, <1>4, <2>5, <2>6
    <3>. HIDE DEF V, e, c, t, m, r
    <3>2. e \o c = wire \o bytes
      BY <3>1, Regrouped, SMTT(60)
    <3>. QED BY <3>2
  <2>8. down' = e
    <3>. HIDE DEF t
    <3>. QED BY <1>1, <1>2
  <2>9. Len(waiting') <= 1
    BY <2>2
  <2>10. Pending(waiting', scratch') = c
    BY <2>3, <2>4
  <2>. HIDE DEF e, c
  <2>. QED BY <2>7, <2>8, <2>9, <2>10
<1>. QED BY <1>5, <1>6

\* The socket takes more of what waits.
LEMMA DrainsWell ==
    ASSUME FramingTypes, Drains
    PROVE  /\ down' \in Wires /\ waiting' \in Seq(Ranges(Len(scratch)))
           /\ Len(waiting) <= 1 =>
                Len(waiting') <= 1 /\ down' \o Pending(waiting', scratch) = down \o Pending(waiting, scratch)
<1> DEFINE r == Head(waiting)
           N == Len(scratch)
           a == r.from
           b == r.to
           z == SubSeq(scratch, a, b)
           t == Taken(down, z)
           n == Len(t)
           more == [r EXCEPT !.from = @ + n]
           c == SubSeq(z, n + 1, Len(z))
<1>1. /\ waiting # <<>> /\ n > 0
      /\ down' = down \o SubSeq(scratch, a, a + n - 1)
      /\ waiting' = IF a + n > b THEN Tail(waiting) ELSE <<more>> \o Tail(waiting)
  BY DEF Drains
<1>2. scratch \in Seq(Nat) /\ down \in Wires /\ down \in Seq(Nat) /\ waiting \in Seq(Ranges(N)) /\ N \in Nat
  BY DEF FramingTypes, Wires
<1>3. r \in Ranges(N) /\ Tail(waiting) \in Seq(Ranges(N)) /\ Len(Tail(waiting)) = Len(waiting) - 1 /\ r = waiting[1]
      /\ Len(waiting) \in Nat
  <2>1. r \in Ranges(N) /\ Tail(waiting) \in Seq(Ranges(N)) /\ Len(Tail(waiting)) = Len(waiting) - 1
    BY <1>1, <1>2, HeadTailProperties
  <2>. QED BY <1>2, <2>1
<1>4. a \in 1..N /\ b \in a..N /\ a \in Nat \ {0} /\ b \in 0..N /\ a <= b /\ a \in Nat /\ b \in Nat
  BY <1>2, <1>3 DEF Ranges
<1>5. z \in Seq(Nat) /\ Len(z) = b - a + 1
  <2>1. z \in Seq(Nat) /\ Len(z) = IF a <= b THEN b - a + 1 ELSE 0
    BY <1>2, <1>4, CutFacts
  <2>. QED BY <1>4, <2>1
<1>. HIDE DEF z
<1>6. t \in Seq(Nat) /\ n \in 0..Len(z) /\ t = SubSeq(z, 1, n) /\ down \o t \in Wires
  BY <1>2, <1>5, TakenFacts
<1>. HIDE DEF t
<1>7. n \in Nat /\ n >= 1 /\ n <= b - a + 1
  BY <1>1, <1>4, <1>5, <1>6
<1>. HIDE DEF n
<1>8. SubSeq(scratch, a, a + n - 1) = t
  <2>1. 1 \in 1..b - a + 1 /\ n \in 1..b - a + 1 /\ a + 1 - 1 = a
    BY <1>4, <1>7
  <2>2. a \in 1..Len(scratch) /\ b \in 1..Len(scratch)
    BY <1>2, <1>4
  <2>. HIDE DEF a, b, N
  <2>3. SubSeq(SubSeq(scratch, a, b), 1, n) = SubSeq(scratch, a + 1 - 1, a + n - 1)
    BY <1>2, <2>1, <2>2, SubSeqOfSubSeq
  <2>. QED BY <1>6, <2>1, <2>3 DEF z
<1>9. down' = down \o t
  BY <1>1, <1>8
<1>10. ~(a + n > b) => more \in Ranges(N) /\ more.from = a + n /\ more.to = b
  <2>1. more = [from |-> a + n, to |-> b]
    BY <1>3 DEF Ranges
  <2>2. a + n \in Nat \ {0} /\ (~(a + n > b) => a + n <= b) /\ b <= N
    <3>. HIDE DEF a, b, N
    <3>. QED BY <1>2, <1>4, <1>7
  <2>. HIDE DEF a, b, N, more
  <2>. QED BY <1>4, <2>1, <2>2 DEF Ranges
<1>. HIDE DEF more
<1>11. waiting' \in Seq(Ranges(N))
  <2>1. CASE a + n > b
    BY <1>1, <1>3, <2>1
  <2>2. CASE ~(a + n > b)
    <3>1. <<more>> \in Seq(Ranges(N))
      BY <1>10, <2>2
    <3>2. <<more>> \o Tail(waiting) \in Seq(Ranges(N))
      BY <1>3, <3>1, ConcatProperties
    <3>. QED BY <1>1, <2>2, <3>2
  <2>. QED BY <2>1, <2>2
<1>12. ASSUME Len(waiting) <= 1
       PROVE  Len(waiting') <= 1 /\ down' \o Pending(waiting', scratch) = down \o Pending(waiting, scratch)
  <2>1. Tail(waiting) = <<>>
    <3>1. Len(waiting) # 0
      BY <1>1, <1>2, EmptySeq
    <3>2. Len(Tail(waiting)) = 0
      BY <1>3, <1>12, <3>1
    <3>. QED BY <1>3, <3>2, EmptySeq
  <2>2. Pending(waiting, scratch) = z
    BY <1>1, <1>3 DEF Pending, z
  <2>3. CASE a + n > b
    <3>1. n = Len(z)
      BY <1>4, <1>5, <1>7, <2>3
    <3>2. t = z
      <4>1. SubSeq(z, 1, Len(z)) = z
        BY <1>5, SubSeqFull
      <4>. QED BY <1>6, <3>1, <4>1
    <3>3. waiting' = <<>> /\ Pending(waiting', scratch) = <<>>
      BY <1>1, <2>1, <2>3 DEF Pending
    <3>4. down' \in Seq(Nat) /\ down' \o <<>> = down'
      <4>1. down' \in Seq(Nat)
        BY <1>6, <1>9 DEF Wires
      <4>. QED BY <4>1, ConcatEmptySeq
    <3>5. Len(waiting') <= 1
      BY <3>3
    <3>6. down' \o Pending(waiting', scratch) = down'
      BY <3>3, <3>4
    <3>7. down' = down \o Pending(waiting, scratch)
      BY <1>9, <2>2, <3>2
    <3>. QED BY <3>5, <3>6, <3>7
  <2>4. CASE ~(a + n > b)
    <3>1. waiting' = <<more>>
      <4>1. <<more>> \in Seq(Ranges(N)) /\ <<more>> \o <<>> = <<more>>
        <5>1. <<more>> \in Seq(Ranges(N))
          BY <1>10, <2>4
        <5>. QED BY <5>1, ConcatEmptySeq
      <4>. QED BY <1>1, <2>1, <2>4, <4>1
    <3>2. Len(waiting') <= 1 /\ waiting' # <<>> /\ waiting'[1] = more
      BY <3>1
    <3>3. Pending(waiting', scratch) = SubSeq(scratch, a + n, b)
      BY <1>10, <2>4, <3>2 DEF Pending
    <3>4. SubSeq(scratch, a + n, b) = c
      <4> DEFINE m == n + 1
                 k == b - a + 1
      <4>1. m \in 1..b - a + 1 /\ k \in 1..b - a + 1 /\ a + m - 1 = a + n /\ a + k - 1 = b /\ k = Len(z)
        BY <1>4, <1>5, <1>7, <2>4
      <4>2. a \in 1..Len(scratch) /\ b \in 1..Len(scratch)
        BY <1>2, <1>4
      <4>. HIDE DEF a, b, N, m, k
      <4>3. SubSeq(SubSeq(scratch, a, b), m, k) = SubSeq(scratch, a + m - 1, a + k - 1)
        BY <1>2, <4>1, <4>2, SubSeqOfSubSeq
      <4>. QED BY <4>1, <4>3 DEF z, m
    <3>5. t \o c = z /\ c \in Seq(Nat)
      <4>1. SubSeq(z, 1, n) \o c = z
        BY <1>5, <1>6, Halves
      <4>2. c \in Seq(Nat)
        BY <1>5, <1>6, Behind
      <4>. QED BY <1>6, <4>1, <4>2
    <3> DEFINE e == down \o t
    <3>6. e \o c = down \o z
      <4> DEFINE V == Nat
      <4>1. down \in Seq(V) /\ t \in Seq(V) /\ c \in Seq(V) /\ z = t \o c /\ e = down \o t
        BY <1>2, <1>6, <3>5
      <4>. HIDE DEF V, e, c
      <4>. QED BY <4>1, Regrouped, SMTT(60)
    <3>7. Pending(waiting', scratch) = c
      BY <3>3, <3>4
    <3>8. down' = e
      BY <1>9
    <3>. HIDE DEF e, c
    <3>. QED BY <2>2, <3>2, <3>6, <3>7, <3>8
  <2>. QED BY <2>3, <2>4
<1>. QED BY <1>6, <1>9, <1>11, <1>12

\* What is encoded is nothing, or a frame.
LEMMA EncodedType ==
    ASSUME NEW kind \in Nat, NEW port \in Nat, NEW payload \in Seq(Nat)
    PROVE  LET f == Frame(kind, port, payload)
           IN  Encoded(f) \in Seq(Nat) /\ (Encoded(f) # <<>> => f \in Frames)
<1> DEFINE f == Frame(kind, port, payload)
<1>1. f.kind = kind /\ f.port = port /\ f.payload = payload
  BY DEF Frame
<1>2. CASE Len(payload) <= MaxPayload
  <2>1. f \in Frames
    BY <1>2 DEF Frame, Frames
  <2>. QED BY <2>1, EncodedFacts
<1>3. CASE ~(Len(payload) <= MaxPayload)
  <2>1. Len(payload) > MaxPayload
    BY <1>3, SizesAssumption
  <2>2. Encoded(f) = <<>>
    BY <1>1, <2>1 DEF Encoded
  <2>3. <<>> \in Seq(Nat)
    OBVIOUS
  <2>. QED BY <2>2, <2>3
<1>. QED BY <1>2, <1>3

LEMMA KindsAndPorts == MIDI \in Nat /\ HELLO \in Nat /\ Port \in Nat /\ MIDI # HELLO
BY SizesAssumption DEF MIDI, HELLO

LEMMA HelloFrame == Hello \in Frames /\ Encoded(Hello) \in Seq(Nat) /\ Len(Encoded(Hello)) = 5
<1> DEFINE p == <<2>>
<1>1. p \in Seq(Nat) /\ Len(p) = 1
  OBVIOUS
<1>2. Hello = Frame(HELLO, 0, p) /\ Hello.payload = p
  BY DEF Hello, Frame
<1>. HIDE DEF p
<1>3. Len(p) <= MaxPayload
  BY <1>1, SizesAssumption
<1>4. Hello \in Frames
  BY <1>1, <1>2, <1>3, KindsAndPorts DEF Frames, Frame
<1>5. FrameSize(Hello) = 5
  <2>1. FrameSize(Hello) = HeaderBytes + Len(Hello.payload)
    BY DEF FrameSize
  <2>2. Len(Hello.payload) = 1
    BY <1>1, <1>2
  <2>. QED BY <2>1, <2>2 DEF HeaderBytes
<1>. QED BY <1>4, <1>5, EncodedFacts

\* A frame of the driver's is sent in whole, in part or not at all.
LEMMA SendType ==
    ASSUME FramingTypes, NEW messages \in Seq(Seq(Nat)), SendMidi(messages)
    PROVE  up' \in Wires
<1>1. CASE ~(conn /\ messages # <<>>)
  BY <1>1 DEF SendMidi, FramingTypes
<1>2. CASE conn /\ messages # <<>>
  <2> DEFINE bytes == Encoded(Frame(MIDI, Port, messages[1]))
  <2>1. messages[1] \in Seq(Nat)
    <3>1. 1 \in 1..Len(messages)
      BY <1>2, EmptySeq
    <3>. QED BY <3>1, ElementOfSeq
  <2>2. bytes \in Seq(Nat)
    BY <2>1, KindsAndPorts, EncodedType
  <2>3. up' = up \o Taken(up, bytes)
    BY <1>2 DEF SendMidi, WriteAll, DriverEncoded
  <2>. HIDE DEF bytes
  <2>. QED BY <2>2, <2>3, TakenFacts DEF FramingTypes
<1>. QED BY <1>1, <1>2

\* What the bridge writes of a note.
LEMMA NoteFrame ==
    ASSUME NEW note \in Notes
    PROVE  LET f == Frame(MIDI, note[1], Sink(note[2]))
           IN  Encoded(f) \in Seq(Nat) /\ (Encoded(f) # <<>> => f \in Frames) /\ ActsOn("driver", f)
<1> DEFINE s == Sink(note[2])
           f == Frame(MIDI, note[1], s)
<1>1. /\ note[1] \in Nat /\ DeviceOf(note[1]) < DeviceCount /\ PortOf(note[1]) < PortsPerDevice
      /\ note[2] \in Seq(Nat) /\ Len(note[2]) = 3
  BY NotesAssumption
<1>2. s \in Seq(Nat) /\ Len(s) \in {2, 3}
  <2> DEFINE z == SubSeq(note[2], 1, 2)
  <2>1. 2 \in 0..Len(note[2])
    BY <1>1
  <2>2. z \in Seq(Nat) /\ Len(z) = 2
    BY <1>1, <2>1, Before
  <2>3. s = z \/ s = note[2]
    BY DEF Sink
  <2>. HIDE DEF z, s
  <2>. QED BY <1>1, <2>2, <2>3
<1>3. Encoded(f) \in Seq(Nat) /\ (Encoded(f) # <<>> => f \in Frames)
  <2>. HIDE DEF s
  <2>. QED BY <1>1, <1>2, KindsAndPorts, EncodedType
<1>4. ActsOn("driver", f)
  <2>1. s # <<>>
    <3>. HIDE DEF s
    <3>. QED BY <1>2, EmptySeq
  <2>. HIDE DEF s
  <2>2. f.kind = MIDI /\ f.port = note[1] /\ f.payload = s
    BY DEF Frame
  <2>. HIDE DEF f
  <2>. QED BY <1>1, <2>1, <2>2 DEF ActsOn, OnFrame
<1>. QED BY <1>3, <1>4

LEMMA EmptyWire == <<>> \in Wires /\ Len(<<>>) = 0 /\ Room \in Nat
<1>1. Len(<<>>) = 0
  OBVIOUS
<1>. QED BY <1>1, FrameSizes DEF Wires

\* A new connection.
LEMMA ConnectType ==
    ASSUME FramingTypes, Connect
    PROVE  FramingTypes'
<1> DEFINE b == Encoded(Hello)
           t == Taken(<<>>, b)
<1>1. b \in Seq(Nat) /\ up' = t /\ Write(<<>>, <<>>, b) /\ conn' = TRUE /\ held' = <<>>
      /\ reader' = reader /\ dec' = dec /\ daw' = daw
  BY HelloFrame DEF Connect, DriverEncoded
<1>. HIDE DEF b
<1>2. t \in Seq(Nat) /\ <<>> \o t \in Wires
  BY <1>1, EmptyWire, TakenFacts
<1>. HIDE DEF t
<1>3. <<>> \o t = t
  BY <1>2, ConcatEmptySeq
<1>4. <<>> \in Seq(Ranges(Len(scratch)))
  OBVIOUS
<1>5. down' \in Wires /\ scratch' \in Seq(Nat) /\ waiting' \in Seq(Ranges(Len(scratch')))
  BY <1>1, <1>4, EmptyWire, WriteType DEF FramingTypes
<1>6. held' \in {s \in Seq(Nat) : Len(s) <= 4 * MaxFrame}
  <2>1. <<>> \in Seq(Nat) /\ Len(<<>>) = 0
    OBVIOUS
  <2>. QED BY <1>1, <2>1, FrameSizes
<1>. QED BY <1>1, <1>2, <1>3, <1>5, <1>6 DEF FramingTypes

\* The end of a connection.
LEMMA EndsType ==
    ASSUME Ends
    PROVE  /\ conn' = FALSE /\ conn' \in BOOLEAN /\ down' \in Wires /\ up' \in Wires /\ waiting' = <<>>
           /\ \A N : waiting' \in Seq(Ranges(N))
<1>1. conn' = FALSE /\ down' = <<>> /\ up' = <<>> /\ waiting' = <<>>
  BY DEF Ends
<1>2. \A N : <<>> \in Seq(Ranges(N))
  OBVIOUS
<1>. QED BY <1>1, <1>2, EmptyWire

LEMMA InitTypes == FramingInit => FramingTypes
<1> SUFFICES ASSUME FramingInit PROVE FramingTypes
  OBVIOUS
<1>1. /\ conn = FALSE /\ down = <<>> /\ waiting = <<>> /\ scratch = <<>> /\ reader = <<>> /\ up = <<>> /\ held = <<>>
      /\ dec = NewDecoder /\ daw = <<>>
  BY DEF FramingInit
<1>2. <<>> \in Seq(Ranges(Len(<<>>))) /\ <<>> \in Seq(SongPackets) /\ <<>> \in Seq(Nat)
  OBVIOUS
<1>3. NewDecoder \in Decoders
  BY <1>2 DEF NewDecoder, Decoders
<1>4. <<>> \in {s \in Seq(Nat) : Len(s) <= 4 * MaxFrame}
  <2>1. Len(<<>>) <= 4 * MaxFrame
    BY EmptyWire, FrameSizes
  <2>. QED BY <1>2, <2>1
<1>. QED BY <1>1, <1>2, <1>3, <1>4, EmptyWire DEF FramingTypes

LEMMA LinkEndsType == ASSUME FramingTypes, LinkEnds PROVE FramingTypes'
<1>1. Ends /\ scratch' = scratch /\ reader' = reader /\ held' = held /\ dec' = dec /\ daw' = daw
  BY DEF LinkEnds
<1>. QED BY <1>1, EndsType DEF FramingTypes

LEMMA DriverRestartsType == ASSUME FramingTypes, DriverRestarts PROVE FramingTypes'
<1>1. Ends /\ scratch' = scratch /\ reader' = reader /\ held' = <<>> /\ dec' = NewDecoder /\ daw' = daw
  BY DEF DriverRestarts
<1>2. NewDecoder \in Decoders
  BY DEF NewDecoder, Decoders
<1>3. <<>> \in {s \in Seq(Nat) : Len(s) <= 4 * MaxFrame}
  <2>1. Len(<<>>) <= 4 * MaxFrame /\ <<>> \in Seq(Nat)
    BY EmptyWire, FrameSizes
  <2>. QED BY <2>1
<1>. QED BY <1>1, <1>2, <1>3, EndsType DEF FramingTypes

LEMMA BridgeRestartsType == ASSUME FramingTypes, BridgeRestarts PROVE FramingTypes'
<1>1. Ends /\ scratch' = <<>> /\ reader' = <<>> /\ held' = held /\ dec' = dec /\ daw' = daw
  BY DEF BridgeRestarts
<1>2. <<>> \in Seq(Nat)
  OBVIOUS
<1>. QED BY <1>1, <1>2, EndsType DEF FramingTypes

LEMMA BridgeSendsType == ASSUME FramingTypes, NEW note \in Notes, BridgeSends(note) PROVE FramingTypes'
<1> DEFINE bytes == Encoded(Frame(MIDI, note[1], Sink(note[2])))
<1>1. /\ Write(down, waiting, bytes) /\ conn' = conn /\ reader' = reader /\ up' = up /\ held' = held /\ dec' = dec
      /\ daw' = daw
  BY DEF BridgeSends
<1>2. bytes \in Seq(Nat)
  BY NoteFrame
<1>. HIDE DEF bytes
<1>3. down' \in Wires /\ scratch' \in Seq(Nat) /\ waiting' \in Seq(Ranges(Len(scratch')))
  BY <1>1, <1>2, WriteType DEF FramingTypes
<1>. QED BY <1>1, <1>3 DEF FramingTypes

LEMMA DrainsType == ASSUME FramingTypes, Drains PROVE FramingTypes'
<1>1. conn' = conn /\ scratch' = scratch /\ reader' = reader /\ up' = up /\ held' = held /\ dec' = dec /\ daw' = daw
  BY DEF Drains
<1>. QED BY <1>1, DrainsWell DEF FramingTypes

\* What is left of a wire when some was read.
LEMMA ReadFrom ==
    ASSUME NEW wire \in Wires, NEW n \in 1..Len(wire)
    PROVE  /\ SubSeq(wire, 1, n) \in Seq(Nat) /\ Len(SubSeq(wire, 1, n)) = n /\ n <= Room
           /\ SubSeq(wire, n + 1, Len(wire)) \in Wires
           /\ SubSeq(wire, 1, n) \o SubSeq(wire, n + 1, Len(wire)) = wire
<1> DEFINE x == SubSeq(wire, 1, n)
           y == SubSeq(wire, n + 1, Len(wire))
<1>1. wire \in Seq(Nat) /\ Len(wire) \in Nat /\ Len(wire) <= Room /\ n \in 0..Len(wire) /\ Room \in Nat
  BY EmptyWire DEF Wires
<1>2. x \in Seq(Nat) /\ Len(x) = n
  BY <1>1, Before
<1>3. y \in Seq(Nat) /\ Len(y) = Len(wire) - n
  BY <1>1, Behind
<1>4. x \o y = wire
  BY <1>1, Halves
<1>. HIDE DEF x, y
<1>5. y \in Wires
  BY <1>1, <1>3 DEF Wires
<1>6. n <= Room
  BY <1>1
<1>. QED BY <1>2, <1>4, <1>5, <1>6 DEF x, y

LEMMA DriverReadsType == ASSUME FramingTypes, NEW n \in 1..Room, DriverReads(n) PROVE FramingTypes'
<1> DEFINE chunk == SubSeq(down, 1, n)
           push == DriverPush(held, chunk)
           rest == SubSeq(down, n + 1, Len(down))
<1>1. /\ n \in 1..Len(down) /\ held' = push.left
      /\ IF push.ok THEN down' = rest /\ conn' = conn /\ waiting' = waiting /\ up' = up ELSE Ends
      /\ scratch' = scratch /\ reader' = reader /\ dec' = dec /\ daw' = daw
  BY DEF DriverReads
<1>2. chunk \in Seq(Nat) /\ rest \in Wires
  BY <1>1, ReadFrom DEF FramingTypes
<1>. HIDE DEF chunk, rest
<1>3. held \in Seq(Nat) /\ Len(held) <= 4 * MaxFrame
  BY DEF FramingTypes
<1>4. push.left \in Seq(Nat) /\ Len(push.left) <= 4 * MaxFrame
  BY <1>2, <1>3, DriverPushType
<1>. HIDE DEF push
<1>5. CASE push.ok
  BY <1>1, <1>2, <1>4, <1>5 DEF FramingTypes
<1>6. CASE ~push.ok
  BY <1>1, <1>4, <1>6, EndsType DEF FramingTypes
<1>. QED BY <1>5, <1>6

\* What the bridge's reader keeps.
LEMMA BridgePushType ==
    ASSUME NEW have \in Seq(Nat), NEW chunk \in Seq(Nat)
    PROVE  BridgePush(have, chunk).left \in Seq(Nat)
<1> DEFINE s == have \o chunk
<1>1. s \in Seq(Nat)
  BY Concatenated
<1>2. BridgePush(have, chunk) = IF Ensured(Len(have), Len(chunk)) THEN Parsed(s) ELSE [frames |-> <<>>, left |-> have, ok |-> FALSE]
  BY DEF BridgePush
<1>. HIDE DEF s
<1>3. Parsed(s).left \in Seq(Nat)
  BY <1>1, ParsedType
<1>. QED BY <1>2, <1>3

LEMMA BridgeReadsType == ASSUME FramingTypes, NEW n \in 1..Room, BridgeReads(n) PROVE FramingTypes'
<1> DEFINE chunk == SubSeq(up, 1, n)
           push == BridgePush(reader, chunk)
           rest == SubSeq(up, n + 1, Len(up))
<1>1. /\ n \in 1..Len(up) /\ reader' = push.left
      /\ IF push.ok THEN up' = rest /\ conn' = conn /\ waiting' = waiting /\ down' = down ELSE Ends
      /\ scratch' = scratch /\ held' = held /\ dec' = dec /\ daw' = daw
  BY DEF BridgeReads
<1>2. chunk \in Seq(Nat) /\ rest \in Wires
  BY <1>1, ReadFrom DEF FramingTypes
<1>. HIDE DEF chunk, rest
<1>3. push.left \in Seq(Nat)
  BY <1>2, BridgePushType DEF FramingTypes
<1>. HIDE DEF push
<1>5. CASE push.ok
  BY <1>1, <1>2, <1>3, <1>5 DEF FramingTypes
<1>6. CASE ~push.ok
  BY <1>1, <1>3, <1>6, EndsType DEF FramingTypes
<1>. QED BY <1>5, <1>6

LEMMA SendPacketsType ==
    ASSUME FramingTypes, NEW p \in SongPackets, SendPackets(p), daw' \in Seq(SongPackets)
    PROVE  FramingTypes'
<1> DEFINE d == Decode(dec, p)
<1>1. /\ dec' = d.decoder /\ SendMidi(d.messages)
      /\ conn' = conn /\ down' = down /\ waiting' = waiting /\ scratch' = scratch /\ reader' = reader /\ held' = held
  BY DEF SendPackets
<1>2. d.decoder \in Decoders /\ d.messages \in Seq(Seq(Nat))
  BY Decodes DEF FramingTypes
<1>. HIDE DEF d
<1>3. up' \in Wires
  BY <1>1, <1>2, SendType
<1>. QED BY <1>1, <1>2, <1>3 DEF FramingTypes

LEMMA DawBeginsType == ASSUME FramingTypes, NEW m \in Songs, DawBegins(m) PROVE FramingTypes' /\ PacketsOf(m)[1] \in SongPackets
<1>1. /\ daw' = (IF IsSysEx(m) THEN Tail(PacketsOf(m)) ELSE daw) /\ SendPackets(PacketsOf(m)[1])
  BY DEF DawBegins
<1>2. PacketsOf(m) \in Seq(SongPackets) /\ PacketsOf(m) # <<>>
  BY Packing
<1>3. PacketsOf(m)[1] \in SongPackets /\ Tail(PacketsOf(m)) \in Seq(SongPackets)
  <2>1. 1 \in 1..Len(PacketsOf(m))
    BY <1>2, EmptySeq
  <2>2. PacketsOf(m)[1] \in SongPackets
    BY <1>2, <2>1, ElementOfSeq
  <2>. QED BY <1>2, <2>2, HeadTailProperties
<1>4. daw' \in Seq(SongPackets)
  BY <1>1, <1>3 DEF FramingTypes
<1>. QED BY <1>1, <1>3, <1>4, SendPacketsType

LEMMA DawGoesOnType == ASSUME FramingTypes, DawGoesOn PROVE FramingTypes' /\ Head(daw) \in SongPackets
<1>1. daw # <<>> /\ daw' = Tail(daw) /\ SendPackets(Head(daw))
  BY DEF DawGoesOn
<1>2. Head(daw) \in SongPackets /\ Tail(daw) \in Seq(SongPackets)
  BY <1>1, HeadTailProperties DEF FramingTypes
<1>. QED BY <1>1, <1>2, SendPacketsType

LEMMA StepTypes == FramingTypes /\ [FramingPropsNext]_framingPropsVars => FramingTypes'
<1> SUFFICES ASSUME FramingTypes, [FramingPropsNext]_framingPropsVars PROVE FramingTypes'
  OBVIOUS
<1>1. CASE LinkNext
  BY <1>1, ConnectType, LinkEndsType, BridgeRestartsType, DrainsType, DriverRestartsType, DriverReadsType, BridgeReadsType
     DEF LinkNext
<1>2. CASE NotesNext
  BY <1>2, BridgeSendsType DEF NotesNext
<1>3. CASE SongsNext
  BY <1>3, DawGoesOnType, DawBeginsType DEF SongsNext
<1>4. CASE UNCHANGED framingPropsVars
  BY <1>4 DEF framingPropsVars, framingVars, FramingTypes
<1>. QED BY <1>1, <1>2, <1>3, <1>4 DEF FramingPropsNext

-----------------------------------------------------------------------------
(* The frames an end is owed are carried by what it has and what is on the *)
(* way to it.                                                              *)

\* What has not been read yet by an end carries the frames it is owed, one after another.
OwedType == owed \in [driver : Seq(Frames), bridge : Seq(Frames)]
BridgeIsOwed ==
    Len(reader) < MaxFrame /\ \E G : Carries(reader \o up, G) /\ owed.bridge = ActedOn("bridge", G)
DriverIsOwed ==
    /\ Len(held) < MaxFrame /\ Len(waiting) <= 1
    /\ \E G : Carries(held \o (down \o Pending(waiting, scratch)), G) /\ owed.driver = ActedOn("driver", G)
BridgeInv == marks \cap {"cut", "stale"} = {} => "bridge" \notin wrong /\ (conn => BridgeIsOwed)
DriverInv == "spoiled" \notin marks => "driver" \notin wrong /\ (conn => DriverIsOwed)

\* A first frame.
LEMMA FirstFrame ==
    ASSUME NEW end
    PROVE  Carries(<<>> \o Encoded(Hello), Append(<<>>, Hello)) /\ ActedOn(end, Append(<<>>, Hello)) = <<>>
<1>1. Carries(<<>> \o Encoded(Hello), Append(<<>>, Hello))
  BY NothingCarried, HelloFrame, CarriesMore
<1>2. <<>> \in Seq(Frames)
  OBVIOUS
<1>3. ActedOn(end, <<>>) = <<>>
  BY <1>2, ActedType
<1>4. ActedOn(end, Append(<<>>, Hello)) = OneMore(end, <<>>, Hello)
  BY <1>2, <1>3, HelloFrame, ActedMore
<1>5. ~ActsOn(end, Hello)
  <2>1. Hello.kind = HELLO
    BY DEF Hello, Frame
  <2>. QED BY <2>1, KindsAndPorts DEF ActsOn, OnFrame
<1>. QED BY <1>1, <1>4, <1>5 DEF OneMore

LEMMA ConnectKeeps ==
    ASSUME FramingTypes, Connect, Connected
    PROVE  OwedType' /\ BridgeInv' /\ DriverInv'
<1> DEFINE b == Encoded(Hello)
           t == Taken(<<>>, b)
           H == Append(<<>>, Hello)
<1>1. b \in Seq(Nat) /\ up' = t /\ Write(<<>>, <<>>, b) /\ conn' = TRUE /\ held' = <<>> /\ reader' = reader /\ Len(b) = 5
  BY HelloFrame DEF Connect, DriverEncoded
<1>2. /\ owed' = [driver |-> <<>>, bridge |-> <<>>] /\ wrong' = wrong \ {"driver", "bridge"}
      /\ marks' = IF reader = <<>> THEN {} ELSE {"stale"}
  BY DEF Connected
<1>3. Carries(<<>> \o b, H) /\ ActedOn("driver", H) = <<>> /\ ActedOn("bridge", H) = <<>>
  BY FirstFrame
<1>. HIDE DEF H, b
<1>4. OwedType'
  <2>1. <<>> \in Seq(Frames)
    OBVIOUS
  <2>. QED BY <1>2, <2>1 DEF OwedType
<1>5. owed'.driver = <<>> /\ owed'.bridge = <<>>
  BY <1>2
<1>6. Len(<<>>) < MaxFrame
  BY EmptyWire, FrameSizes
<1>7. BridgeInv'
  <2>. SUFFICES ASSUME marks' \cap {"cut", "stale"} = {} PROVE "bridge" \notin wrong' /\ BridgeIsOwed'
    BY DEF BridgeInv
  <2>1. reader = <<>>
    BY <1>2
  <2>2. t = b
    <3>1. t \in Seq(Nat) /\ t = SubSeq(b, 1, Len(t)) /\ (Len(b) <= Room - Len(<<>>) => Len(t) = Len(b))
      BY <1>1, EmptyWire, TakenFacts
    <3>. HIDE DEF t
    <3>2. Len(b) <= Room - Len(<<>>)
      BY <1>1, EmptyWire, FrameSizes
    <3>3. SubSeq(b, 1, Len(b)) = b
      BY <1>1, SubSeqFull
    <3>. QED BY <3>1, <3>2, <3>3
  <2>3. Carries(reader' \o up', H)
    BY <1>1, <1>3, <2>1, <2>2
  <2>4. Len(reader') < MaxFrame
    BY <1>1, <1>6, <2>1
  <2>. QED BY <1>2, <1>3, <1>5, <2>3, <2>4 DEF BridgeIsOwed
<1>8. DriverInv'
  <2>1. Len(waiting') <= 1 /\ down' \o Pending(waiting', scratch') = <<>> \o b
    BY <1>1, EmptyWire, WriteWell DEF FramingTypes
  <2>2. <<>> \o b = b
    BY <1>1, ConcatEmptySeq
  <2>3. held' \o (down' \o Pending(waiting', scratch')) = <<>> \o b
    <3>1. down' \o Pending(waiting', scratch') = b
      BY <2>1, <2>2
    <3>. QED BY <1>1, <3>1
  <2>4. Carries(held' \o (down' \o Pending(waiting', scratch')), H)
    BY <1>3, <2>3
  <2>5. "driver" \notin wrong'
    BY <1>2
  <2>6. Len(held') < MaxFrame
    BY <1>1, <1>6
  <2>7. DriverIsOwed'
    BY <1>3, <1>5, <2>1, <2>4, <2>6 DEF DriverIsOwed
  <2>. QED BY <2>5, <2>7 DEF DriverInv
<1>. QED BY <1>4, <1>7, <1>8

\* Nothing is owed on a connection that has ended, or is not there.
LEMMA EndKeeps ==
    ASSUME OwedType, BridgeInv, DriverInv, Ends, UNCHANGED <<owed, wrong, marks>>
    PROVE  OwedType' /\ BridgeInv' /\ DriverInv'
BY DEF OwedType, BridgeInv, DriverInv, Ends

LEMMA DrainsKeeps ==
    ASSUME FramingTypes, OwedType, BridgeInv, DriverInv, Drains, UNCHANGED linkHistory
    PROVE  OwedType' /\ BridgeInv' /\ DriverInv'
<1>1. /\ conn' = conn /\ scratch' = scratch /\ reader' = reader /\ up' = up /\ held' = held
      /\ owed' = owed /\ wrong' = wrong /\ marks' = marks
  BY DEF Drains, linkHistory
<1>2. BridgeIsOwed => BridgeIsOwed'
  BY <1>1 DEF BridgeIsOwed
<1>3. DriverIsOwed => DriverIsOwed'
  <2>. SUFFICES ASSUME DriverIsOwed PROVE DriverIsOwed'
    OBVIOUS
  <2>1. Len(waiting) <= 1 /\ Len(held) < MaxFrame
    BY DEF DriverIsOwed
  <2>2. Len(waiting') <= 1 /\ down' \o Pending(waiting', scratch) = down \o Pending(waiting, scratch)
    BY <2>1, DrainsWell
  <2>3. held' \o (down' \o Pending(waiting', scratch')) = held \o (down \o Pending(waiting, scratch))
    BY <1>1, <2>2
  <2>4. PICK G : Carries(held \o (down \o Pending(waiting, scratch)), G) /\ owed.driver = ActedOn("driver", G)
    BY DEF DriverIsOwed
  <2>5. Carries(held' \o (down' \o Pending(waiting', scratch')), G)
    BY <2>3, <2>4
  <2>. QED BY <1>1, <2>1, <2>2, <2>4, <2>5 DEF DriverIsOwed
<1>. QED BY <1>1, <1>2, <1>3 DEF OwedType, BridgeInv, DriverInv

LEMMA PendingType == ASSUME FramingTypes PROVE Pending(waiting, scratch) \in Seq(Nat)
<1>1. CASE waiting = <<>>
  <2>1. <<>> \in Seq(Nat)
    OBVIOUS
  <2>. QED BY <1>1, <2>1 DEF Pending
<1>2. CASE waiting # <<>>
  <2>1. waiting \in Seq(Ranges(Len(scratch))) /\ scratch \in Seq(Nat) /\ Len(scratch) \in Nat
    BY DEF FramingTypes
  <2>2. 1 \in 1..Len(waiting)
    BY <1>2, <2>1, EmptySeq
  <2>3. waiting[1] \in Ranges(Len(scratch))
    BY <2>1, <2>2, ElementOfSeq
  <2>4. waiting[1].from \in Nat \ {0} /\ waiting[1].to \in 0..Len(scratch)
    BY <2>1, <2>3 DEF Ranges
  <2>5. SubSeq(scratch, waiting[1].from, waiting[1].to) \in Seq(Nat)
    BY <2>1, <2>4, CutFacts
  <2>. QED BY <1>2, <2>5 DEF Pending
<1>. QED BY <1>1, <1>2

\* What an end does with what it read, when that is what it was owed.
LEMMA ReadKeeps ==
    ASSUME OwedType, NEW end \in {"driver", "bridge"}, NEW G, NEW F, NEW s, Split(G, F, s), owed[end] = ActedOn(end, G),
           NEW ok, ok, Read(end, ok, ActedOn(end, F))
    PROVE  /\ OwedType' /\ wrong' = wrong /\ marks' = marks
           /\ \A other \in {"driver", "bridge"} \ {end} : owed'[other] = owed[other]
           /\ \E R : Carries(s, R) /\ owed'[end] = ActedOn(end, R)
<1> DEFINE a == ActedOn(end, F)
           o == owed[end]
           x == SubSeq(o, Len(a) + 1, Len(o))
<1>0. o = ActedOn(end, G)
  OBVIOUS
<1>. HIDE DEF o
<1>1. IsPrefix(a, o) /\ \E R : Carries(s, R) /\ ActedOn(end, R) = x
  <2>1. IsPrefix(a, o)
    BY <1>0, OwedAfter
  <2>2. OwedRest(end, F, o, s)
    BY <1>0, OwedAfter
  <2>3. \E R : Carries(s, R) /\ ActedOn(end, R) = x
    BY <2>2 DEF OwedRest
  <2>. QED BY <2>1, <2>3
<1>. HIDE DEF a, x
<1>2. owed' = [owed EXCEPT ![end] = x] /\ wrong' = wrong /\ marks' = marks
  BY <1>1 DEF Read, a, o, x
<1>3. PICK R : Carries(s, R) /\ ActedOn(end, R) = x
  BY <1>1
<1>4. x \in Seq(Frames)
  <2>1. R \in Seq(Frames)
    BY <1>3, CarriesType
  <2>. QED BY <1>3, <2>1, ActedType
<1>5. OwedType' /\ owed'[end] = x /\ \A other \in {"driver", "bridge"} \ {end} : owed'[other] = owed[other]
  BY <1>2, <1>4 DEF OwedType
<1>. QED BY <1>2, <1>3, <1>5

\* What changes when an end reads, whatever it was.
LEMMA ReadType ==
    ASSUME OwedType, NEW end \in {"driver", "bridge"}, NEW ok, NEW a \in Seq(Frames), Read(end, ok, a)
    PROVE  /\ OwedType' /\ marks' = marks
           /\ \A other \in {"driver", "bridge"} \ {end} :
                owed'[other] = owed[other] /\ (other \in wrong' => other \in wrong)
<1> DEFINE o == owed[end]
           x == SubSeq(o, Len(a) + 1, Len(o))
<1>1. CASE ok /\ IsPrefix(a, o)
  <2>1. owed' = [owed EXCEPT ![end] = x] /\ wrong' = wrong /\ marks' = marks
    BY <1>1 DEF Read
  <2>2. x \in Seq(Frames)
    <3>1. o \in Seq(Frames) /\ Len(o) \in Nat /\ Len(a) \in Nat
      BY DEF OwedType
    <3>2. Len(a) <= Len(o)
      BY <1>1, <3>1 DEF IsPrefix
    <3>3. Len(a) \in 0..Len(o)
      BY <3>1, <3>2
    <3>. HIDE DEF o
    <3>. QED BY <3>1, <3>3, Behind
  <2>. HIDE DEF x, o
  <2>. QED BY <2>1, <2>2 DEF OwedType
<1>2. CASE ~(ok /\ IsPrefix(a, o))
  <2>1. owed' = owed /\ wrong' = wrong \cup {end} /\ marks' = marks
    BY <1>2 DEF Read
  <2>. QED BY <2>1 DEF OwedType
<1>. QED BY <1>1, <1>2

LEMMA DriverReadsKeeps ==
    ASSUME FramingTypes, OwedType, BridgeInv, DriverInv, NEW n \in 1..Room, DriverReads(n),
           LET push == DriverPush(held, SubSeq(down, 1, n)) IN Read("driver", push.ok, OnFromBridge(push.frames))
    PROVE  OwedType' /\ BridgeInv' /\ DriverInv'
<1> DEFINE chunk == SubSeq(down, 1, n)
           push == DriverPush(held, chunk)
           rest == SubSeq(down, n + 1, Len(down))
           P == Pending(waiting, scratch)
           z == rest \o P
           a == ActedOn("driver", push.frames)
<1>1. /\ n \in 1..Len(down) /\ conn /\ held' = push.left
      /\ IF push.ok THEN down' = rest /\ conn' = conn /\ waiting' = waiting /\ up' = up ELSE Ends
      /\ scratch' = scratch /\ reader' = reader
  BY DEF DriverReads
<1>2. Read("driver", push.ok, a)
  BY DEF OnFromBridge
<1>3. down \in Seq(Nat) /\ down \in Wires /\ held \in Seq(Nat) /\ P \in Seq(Nat)
  BY PendingType DEF FramingTypes, Wires
<1>. HIDE DEF P
<1>4. chunk \in Seq(Nat) /\ rest \in Seq(Nat) /\ chunk \o rest = down
  BY <1>1, <1>3, ReadFrom DEF Wires
<1>. HIDE DEF chunk, rest
<1>5. down \o P = chunk \o z /\ z \in Seq(Nat)
  <2>1. z \in Seq(Nat)
    BY <1>3, <1>4, Concatenated
  <2> DEFINE V == Nat
  <2>2. chunk \in Seq(V) /\ rest \in Seq(V) /\ P \in Seq(V) /\ z = rest \o P /\ down = chunk \o rest
    BY <1>3, <1>4
  <2>. HIDE DEF V, z
  <2>3. down \o P = chunk \o z
    BY <2>2, Regrouped, SMTT(60)
  <2>. QED BY <2>1, <2>3
<1>. HIDE DEF z
<1>6. ASSUME DriverIsOwed
      PROVE  push.ok /\ OwedType' /\ wrong' = wrong /\ marks' = marks /\ owed'.bridge = owed.bridge /\ DriverIsOwed'
  <2>1. PICK G : Carries(held \o (down \o P), G) /\ owed.driver = ActedOn("driver", G)
    BY <1>6 DEF DriverIsOwed, P
  <2>2. Len(held) < MaxFrame /\ Len(waiting) <= 1
    BY <1>6 DEF DriverIsOwed
  <2>3. Carries(held \o (chunk \o z), G)
    BY <1>5, <2>1
  <2>4. push.ok /\ Len(push.left) < MaxFrame /\ Split(G, push.frames, push.left \o z)
    BY <1>3, <1>4, <1>5, <2>2, <2>3, DriverPushWell
  <2>. HIDE DEF push
  <2>5. Read("driver", push.ok, ActedOn("driver", push.frames))
    BY <1>2
  <2>6. OwedType' /\ wrong' = wrong /\ marks' = marks /\ owed'["bridge"] = owed["bridge"]
    BY <2>1, <2>4, <2>5, ReadKeeps
  <2>7. \E R : Carries(push.left \o z, R) /\ owed'["driver"] = ActedOn("driver", R)
    BY <2>1, <2>4, <2>5, ReadKeeps
  <2>8. held' = push.left /\ down' = rest /\ waiting' = waiting /\ scratch' = scratch
    BY <1>1, <2>4
  <2>9. held' \o (down' \o Pending(waiting', scratch')) = push.left \o z
    BY <2>8 DEF z, P
  <2>10. DriverIsOwed'
    <3>1. PICK R : Carries(push.left \o z, R) /\ owed'["driver"] = ActedOn("driver", R)
      BY <2>7
    <3>2. Carries(held' \o (down' \o Pending(waiting', scratch')), R)
      BY <2>9, <3>1
    <3>. QED BY <2>2, <2>4, <2>8, <3>1, <3>2 DEF DriverIsOwed
  <2>. QED BY <2>4, <2>6, <2>10
<1>. HIDE DEF push, a
<1>7. /\ OwedType' /\ marks' = marks /\ owed'.bridge = owed.bridge /\ ("bridge" \in wrong' => "bridge" \in wrong)
  <2>1. Len(held) <= 4 * MaxFrame
    BY DEF FramingTypes
  <2>2. push.frames \in Seq(Frames)
    BY <1>3, <1>4, <2>1, DriverPushType DEF push
  <2>3. a \in Seq(Frames)
    BY <2>2, ActedType DEF a
  <2>4. OwedType' /\ marks' = marks /\ owed'["bridge"] = owed["bridge"] /\ ("bridge" \in wrong' => "bridge" \in wrong)
    BY <1>2, <2>3, ReadType
  <2>. QED BY <2>4
<1>8. BridgeInv'
  <2>1. CASE push.ok
    <3>1. up' = up /\ reader' = reader /\ conn' = conn
      BY <1>1, <2>1
    <3>2. BridgeIsOwed => BridgeIsOwed'
      BY <1>7, <3>1 DEF BridgeIsOwed
    <3>. QED BY <1>7, <3>1, <3>2 DEF BridgeInv
  <2>2. CASE ~push.ok
    BY <1>1, <1>7, <2>2 DEF BridgeInv, Ends
  <2>. QED BY <2>1, <2>2
<1>9. DriverInv'
  <2>. SUFFICES ASSUME "spoiled" \notin marks' PROVE "driver" \notin wrong' /\ DriverIsOwed'
    BY DEF DriverInv
  <2>1. "driver" \notin wrong /\ DriverIsOwed
    BY <1>1, <1>7 DEF DriverInv
  <2>. QED BY <1>6, <2>1
<1>. QED BY <1>7, <1>8, <1>9

\* A read always fits in the bridge's buffer, behind a part of a frame.
LEMMA RoomToRead ==
    ASSUME NEW have \in Seq(Nat), Len(have) < MaxFrame, NEW chunk \in Seq(Nat), Len(chunk) <= Room
    PROVE  BridgePush(have, chunk) = Parsed(have \o chunk)
<1>1. Len(have) \in Nat /\ Len(chunk) \in Nat
  OBVIOUS
<1>2. Ensured(Len(have), Len(chunk))
  BY <1>1, FrameSizes DEF Ensured
<1>. QED BY <1>2 DEF BridgePush

LEMMA BridgeReadsKeeps ==
    ASSUME FramingTypes, OwedType, BridgeInv, DriverInv, NEW n \in 1..Room, BridgeReads(n),
           LET push == BridgePush(reader, SubSeq(up, 1, n)) IN Read("bridge", push.ok, Handle(push.frames))
    PROVE  OwedType' /\ BridgeInv' /\ DriverInv'
<1> DEFINE chunk == SubSeq(up, 1, n)
           push == BridgePush(reader, chunk)
           rest == SubSeq(up, n + 1, Len(up))
           e == reader \o chunk
           a == ActedOn("bridge", push.frames)
<1>1. /\ n \in 1..Len(up) /\ conn /\ reader' = push.left
      /\ IF push.ok THEN up' = rest /\ conn' = conn /\ waiting' = waiting /\ down' = down ELSE Ends
      /\ scratch' = scratch /\ held' = held
  BY DEF BridgeReads
<1>2. Read("bridge", push.ok, a)
  BY DEF Handle
<1>3. up \in Seq(Nat) /\ up \in Wires /\ reader \in Seq(Nat)
  BY DEF FramingTypes, Wires
<1>4. chunk \in Seq(Nat) /\ rest \in Seq(Nat) /\ chunk \o rest = up /\ Len(chunk) <= Room
  BY <1>1, <1>3, ReadFrom DEF Wires
<1>. HIDE DEF chunk, rest
<1>5. e \in Seq(Nat) /\ e \o rest = reader \o up
  <2>1. e \in Seq(Nat)
    BY <1>3, <1>4, Concatenated
  <2> DEFINE V == Nat
  <2>2. reader \in Seq(V) /\ chunk \in Seq(V) /\ rest \in Seq(V) /\ up = chunk \o rest /\ e = reader \o chunk
    BY <1>3, <1>4
  <2>. HIDE DEF V, e
  <2>3. e \o rest = reader \o up
    BY <2>2, Regrouped, SMTT(60)
  <2>. QED BY <2>1, <2>3
<1>. HIDE DEF e
<1>6. ASSUME BridgeIsOwed
      PROVE  push.ok /\ wrong' = wrong /\ BridgeIsOwed'
  <2>1. PICK G : Carries(reader \o up, G) /\ owed.bridge = ActedOn("bridge", G)
    BY <1>6 DEF BridgeIsOwed
  <2>2. push = Parsed(e)
    <3>1. Len(reader) < MaxFrame
      BY <1>6 DEF BridgeIsOwed
    <3>. QED BY <1>3, <1>4, <3>1, RoomToRead DEF e
  <2>3. Carries(e \o rest, G)
    BY <1>5, <2>1
  <2>4. push.ok = TRUE /\ Len(push.left) < MaxFrame /\ Split(G, push.frames, push.left \o rest)
    <3>. HIDE DEF push
    <3>1. Parsed(e).ok = TRUE /\ Len(Parsed(e).left) < MaxFrame /\ Split(G, Parsed(e).frames, Parsed(e).left \o rest)
      BY <1>4, <1>5, <2>3, ParsedWell
    <3>. QED BY <2>2, <3>1
  <2>. HIDE DEF push
  <2>5. Read("bridge", push.ok, ActedOn("bridge", push.frames)) /\ push.ok
    BY <1>2, <2>4
  <2>6. wrong' = wrong
    BY <2>1, <2>4, <2>5, ReadKeeps
  <2>7. \E R : Carries(push.left \o rest, R) /\ owed'["bridge"] = ActedOn("bridge", R)
    BY <2>1, <2>4, <2>5, ReadKeeps
  <2>8. reader' = push.left /\ up' = rest
    BY <1>1, <2>4
  <2>9. BridgeIsOwed'
    <3>1. PICK R : Carries(push.left \o rest, R) /\ owed'["bridge"] = ActedOn("bridge", R)
      BY <2>7
    <3>2. Carries(reader' \o up', R)
      BY <2>8, <3>1
    <3>. QED BY <2>4, <2>8, <3>1, <3>2 DEF BridgeIsOwed
  <2>. QED BY <2>5, <2>6, <2>9
<1>7. push.frames \in Seq(Frames)
  <2>1. push = IF Ensured(Len(reader), Len(chunk)) THEN Parsed(e) ELSE [frames |-> <<>>, left |-> reader, ok |-> FALSE]
    BY DEF BridgePush, e
  <2>2. Parsed(e).frames \in Seq(Frames)
    BY <1>5, ParsedType
  <2>3. <<>> \in Seq(Frames)
    OBVIOUS
  <2>. HIDE DEF push
  <2>. QED BY <2>1, <2>2, <2>3
<1>. HIDE DEF push
<1>8. a \in Seq(Frames)
  BY <1>7, ActedType
<1>. HIDE DEF a
<1>9. /\ OwedType' /\ marks' = marks /\ owed'.driver = owed.driver /\ ("driver" \in wrong' => "driver" \in wrong)
  <2>1. OwedType' /\ marks' = marks /\ owed'["driver"] = owed["driver"] /\ ("driver" \in wrong' => "driver" \in wrong)
    BY <1>2, <1>8, ReadType
  <2>. QED BY <2>1
<1>10. DriverInv'
  <2>1. CASE push.ok
    <3>1. down' = down /\ waiting' = waiting /\ scratch' = scratch /\ held' = held /\ conn' = conn
      BY <1>1, <2>1
    <3>2. DriverIsOwed => DriverIsOwed'
      BY <1>9, <3>1 DEF DriverIsOwed
    <3>. QED BY <1>9, <3>1, <3>2 DEF DriverInv
  <2>2. CASE ~push.ok
    BY <1>1, <1>9, <2>2 DEF DriverInv, Ends
  <2>. QED BY <2>1, <2>2
<1>11. BridgeInv'
  <2>. SUFFICES ASSUME marks' \cap {"cut", "stale"} = {} PROVE "bridge" \notin wrong' /\ BridgeIsOwed'
    BY DEF BridgeInv
  <2>1. "bridge" \notin wrong /\ BridgeIsOwed
    BY <1>1, <1>9 DEF BridgeInv
  <2>. QED BY <1>6, <2>1
<1>. QED BY <1>9, <1>10, <1>11

\* A note the bridge writes is behind what it wrote before.
LEMMA BridgeSendsKeeps ==
    ASSUME FramingTypes, OwedType, BridgeInv, DriverInv, NEW note \in Notes, BridgeSends(note), Wrote(note)
    PROVE  OwedType' /\ BridgeInv' /\ DriverInv'
<1> DEFINE f == Frame(MIDI, note[1], Sink(note[2]))
           b == Encoded(f)
           d == Append(owed.driver, f)
<1>1. /\ b # <<>> /\ conn /\ Write(down, waiting, b) /\ conn' = conn /\ reader' = reader /\ up' = up /\ held' = held
  BY DEF BridgeSends
<1>2. /\ owed' = [owed EXCEPT !.driver = d]
      /\ marks' = (IF waiting = <<>> THEN marks ELSE marks \cup {"spoiled"}) /\ wrong' = wrong
  BY DEF Wrote
<1>3. b \in Seq(Nat) /\ f \in Frames /\ ActsOn("driver", f)
  BY <1>1, NoteFrame
<1>. HIDE DEF f
<1>4. owed.driver \in Seq(Frames) /\ d \in Seq(Frames)
  <2>1. owed.driver \in Seq(Frames)
    BY DEF OwedType
  <2>. QED BY <1>3, <2>1, AppendProperties
<1>. HIDE DEF d
<1>5. OwedType' /\ owed'.driver = d /\ owed'.bridge = owed.bridge
  BY <1>2, <1>4 DEF OwedType
<1>6. BridgeInv'
  <2>1. BridgeIsOwed => BridgeIsOwed'
    BY <1>1, <1>5 DEF BridgeIsOwed
  <2>2. marks' \cap {"cut", "stale"} = {} => marks \cap {"cut", "stale"} = {}
    BY <1>2
  <2>. QED BY <1>1, <1>2, <2>1, <2>2 DEF BridgeInv
<1>. HIDE DEF b
<1>7. DriverInv'
  <2>. SUFFICES ASSUME "spoiled" \notin marks' PROVE "driver" \notin wrong' /\ DriverIsOwed'
    BY DEF DriverInv
  <2>1. waiting = <<>> /\ "driver" \notin wrong' /\ DriverIsOwed
    BY <1>1, <1>2 DEF DriverInv
  <2>2. down \in Wires /\ down \in Seq(Nat) /\ held \in Seq(Nat) /\ scratch \in Seq(Nat)
    BY DEF FramingTypes, Wires
  <2>3. PICK G : Carries(held \o (down \o Pending(waiting, scratch)), G) /\ owed.driver = ActedOn("driver", G)
    BY <2>1 DEF DriverIsOwed
  <2>4. Pending(waiting, scratch) = <<>> /\ down \o <<>> = down
    BY <2>1, <2>2, ConcatEmptySeq DEF Pending
  <2> DEFINE e == held \o down
             y == down \o b
  <2>5. Carries(e, G)
    BY <2>3, <2>4
  <2>6. Carries(e \o b, Append(G, f))
    <3>. HIDE DEF e
    <3>. QED BY <1>3, <2>5, CarriesMore DEF b
  <2>7. Len(waiting') <= 1 /\ down' \o Pending(waiting', scratch') = y
    <3>. HIDE DEF y
    <3>1. Write(down, <<>>, b)
      BY <1>1, <2>1
    <3>2. Len(waiting') <= 1 /\ down' \o Pending(waiting', scratch') = down \o b
      BY <1>3, <2>2, <3>1, WriteWell
    <3>. QED BY <3>2 DEF y
  <2>8. e \o b = held \o y
    <3> DEFINE V == Nat
    <3>1. held \in Seq(V) /\ down \in Seq(V) /\ b \in Seq(V) /\ y = down \o b /\ e = held \o down
      BY <1>3, <2>2
    <3>. HIDE DEF V, y, e
    <3>. QED BY <3>1, Regrouped, SMTT(60)
  <2>. HIDE DEF y, e
  <2>9. Carries(held' \o (down' \o Pending(waiting', scratch')), Append(G, f))
    BY <1>1, <2>6, <2>7, <2>8
  <2>10. ActedOn("driver", Append(G, f)) = d
    <3>1. G \in Seq(Frames)
      BY <2>5, CarriesType
    <3>2. ActedOn("driver", Append(G, f)) = OneMore("driver", owed.driver, f)
      BY <1>3, <2>3, <3>1, ActedMore
    <3>. QED BY <1>3, <3>2 DEF OneMore, d
  <2>11. Len(held') < MaxFrame
    BY <1>1, <2>1 DEF DriverIsOwed
  <2>. QED BY <1>5, <2>1, <2>7, <2>9, <2>10, <2>11 DEF DriverIsOwed
<1>. QED BY <1>5, <1>6, <1>7

\* What a packet completes is behind what the driver sent before, in whole or in part.
LEMMA SendPacketsKeeps ==
    ASSUME FramingTypes, OwedType, BridgeInv, DriverInv, NEW p \in SongPackets, NEW expected, SendPackets(p), Delivered(p, expected)
    PROVE  OwedType' /\ BridgeInv' /\ DriverInv'
<1> DEFINE messages == Decode(dec, p).messages
           f == Frame(MIDI, Port, messages[1])
           b == Encoded(f)
           t == Taken(up, b)
           n == Len(up') - Len(up)
           d == Append(owed.bridge, f)
<1>1. /\ SendMidi(messages)
      /\ conn' = conn /\ down' = down /\ waiting' = waiting /\ scratch' = scratch /\ reader' = reader /\ held' = held
  BY DEF SendPackets
<1>2. /\ owed' = (IF messages # <<>> /\ conn /\ n = Len(b) /\ n > 0 THEN [owed EXCEPT !.bridge = d] ELSE owed)
      /\ marks' = (IF messages # <<>> /\ conn /\ n > 0 /\ n < Len(b) THEN marks \cup {"cut"} ELSE marks)
      /\ ("bridge" \in wrong' => "bridge" \in wrong) /\ ("driver" \in wrong' => "driver" \in wrong)
  BY DEF Delivered, DriverEncoded
<1>3. messages \in Seq(Seq(Nat))
  BY Decodes DEF FramingTypes
<1>. HIDE DEF messages
<1>4. up \in Wires /\ up \in Seq(Nat) /\ Len(up) \in Nat /\ reader \in Seq(Nat)
  BY DEF FramingTypes, Wires
<1>5. CASE ~(messages # <<>> /\ conn)
  <2>1. up' = up /\ owed' = owed /\ marks' = marks
    BY <1>1, <1>2, <1>5 DEF SendMidi
  <2>2. (BridgeIsOwed => BridgeIsOwed') /\ (DriverIsOwed => DriverIsOwed')
    BY <1>1, <2>1 DEF BridgeIsOwed, DriverIsOwed
  <2>. QED BY <1>1, <1>2, <2>1, <2>2 DEF OwedType, BridgeInv, DriverInv
<1>6. CASE messages # <<>> /\ conn
  <2>1. messages[1] \in Seq(Nat)
    <3>1. 1 \in 1..Len(messages)
      BY <1>3, <1>6, EmptySeq
    <3>. QED BY <1>3, <3>1, ElementOfSeq
  <2>2. b \in Seq(Nat) /\ (b # <<>> => f \in Frames)
    BY <2>1, KindsAndPorts, EncodedType
  <2>3. f.kind = MIDI
    BY DEF Frame
  <2>. HIDE DEF f
  <2>4. up' = up \o t
    BY <1>1, <1>6 DEF SendMidi, WriteAll, DriverEncoded, f
  <2>5. t \in Seq(Nat) /\ Len(t) \in 0..Len(b) /\ t = SubSeq(b, 1, Len(t)) /\ Len(up \o t) = Len(up) + Len(t)
    <3>. HIDE DEF b
    <3>. QED BY <1>4, <2>2, TakenFacts
  <2>. HIDE DEF t
  <2>6. n = Len(t) /\ Len(t) \in Nat /\ Len(b) \in Nat
    BY <1>4, <2>2, <2>4, <2>5
  <2>. HIDE DEF n
  <2>7. OwedType' /\ owed'.driver = owed.driver
    <3>1. owed.bridge \in Seq(Frames)
      BY DEF OwedType
    <3>2. n = Len(b) /\ n > 0 => f \in Frames
      <4>1. n = Len(b) /\ n > 0 => b # <<>>
        <5>. HIDE DEF b
        <5>. QED BY <2>2, EmptySeq
      <4>. QED BY <2>2, <4>1
    <3>3. n = Len(b) /\ n > 0 => d \in Seq(Frames)
      BY <3>1, <3>2, AppendProperties
    <3>. HIDE DEF d, b
    <3>. QED BY <1>2, <3>3 DEF OwedType
  <2>8. DriverInv'
    <3>1. DriverIsOwed => DriverIsOwed'
      BY <1>1, <2>7 DEF DriverIsOwed
    <3>2. "spoiled" \in marks => "spoiled" \in marks'
      BY <1>2
    <3>. QED BY <1>1, <1>2, <3>1, <3>2 DEF DriverInv
  <2>9. BridgeInv'
    <3>. SUFFICES ASSUME marks' \cap {"cut", "stale"} = {} PROVE "bridge" \notin wrong' /\ BridgeIsOwed'
      BY DEF BridgeInv
    <3>1. ~(n > 0 /\ n < Len(b)) /\ "bridge" \notin wrong' /\ BridgeIsOwed
      <4>. HIDE DEF b
      <4>. QED BY <1>2, <1>6 DEF BridgeInv
    <3>2. PICK G : Carries(reader \o up, G) /\ owed.bridge = ActedOn("bridge", G)
      BY <3>1 DEF BridgeIsOwed
    <3>3. CASE n = 0
      <4>1. t = <<>>
        BY <2>5, <2>6, <3>3, EmptySeq
      <4>2. up' = up
        BY <1>4, <2>4, <4>1, ConcatEmptySeq
      <4>3. owed' = owed
        BY <1>2, <3>3
      <4>. QED BY <1>1, <3>1, <4>2, <4>3 DEF BridgeIsOwed
    <3>4. CASE n # 0
      <4>1. n = Len(b) /\ n > 0
        BY <2>5, <2>6, <3>1, <3>4
      <4>2. f \in Frames
        <5>1. b # <<>>
          <6>. HIDE DEF b
          <6>. QED BY <2>2, <4>1, EmptySeq
        <5>. QED BY <2>2, <5>1
      <4>3. t = b
        <5>1. SubSeq(b, 1, Len(b)) = b
          BY <2>2, SubSeqFull
        <5>. QED BY <2>5, <2>6, <4>1, <5>1
      <4>4. owed'.bridge = d
        <5>1. owed' = [owed EXCEPT !.bridge = d]
          <6>. HIDE DEF d, b
          <6>. QED BY <1>2, <1>6, <4>1
        <5>. HIDE DEF d
        <5>. QED BY <5>1 DEF OwedType
      <4> DEFINE e == reader \o up
                 y == up \o b
      <4>5. Carries(e \o b, Append(G, f))
        <5>. HIDE DEF e
        <5>1. Carries(e, G)
          BY <3>2 DEF e
        <5>. QED BY <4>2, <5>1, CarriesMore
      <4>6. e \o b = reader \o y
        <5> DEFINE V == Nat
        <5>1. reader \in Seq(V) /\ up \in Seq(V) /\ b \in Seq(V) /\ y = up \o b /\ e = reader \o up
          BY <1>4, <2>2
        <5>. HIDE DEF V, y, e, b
        <5>. QED BY <5>1, Regrouped, SMTT(60)
      <4>. HIDE DEF e, y
      <4>7. up' = y /\ reader' = reader
        BY <1>1, <2>4, <4>3 DEF y
      <4>8. Carries(reader' \o up', Append(G, f))
        BY <4>5, <4>6, <4>7
      <4>9. ActedOn("bridge", Append(G, f)) = d
        <5>1. G \in Seq(Frames)
          BY <3>2, CarriesType
        <5>2. ActedOn("bridge", Append(G, f)) = OneMore("bridge", owed.bridge, f)
          BY <3>2, <4>2, <5>1, ActedMore
        <5>3. ActsOn("bridge", f)
          BY <2>3 DEF ActsOn, OnFrame
        <5>. QED BY <5>2, <5>3 DEF OneMore
      <4>. QED BY <3>1, <4>4, <4>7, <4>8, <4>9 DEF BridgeIsOwed
    <3>. QED BY <3>3, <3>4
  <2>. QED BY <2>7, <2>8, <2>9
<1>. QED BY <1>5, <1>6

OwedInv == FramingTypes /\ OwedType /\ BridgeInv /\ DriverInv

LEMMA InitOwed == FramingPropsInit => OwedInv
<1> SUFFICES ASSUME FramingPropsInit PROVE OwedInv
  OBVIOUS
<1>1. FramingTypes /\ conn = FALSE
  BY InitTypes DEF FramingPropsInit, FramingInit
<1>2. owed = [driver |-> <<>>, bridge |-> <<>>] /\ wrong = {}
  BY DEF FramingPropsInit
<1>3. <<>> \in Seq(Frames)
  OBVIOUS
<1>. QED BY <1>1, <1>2, <1>3 DEF OwedInv, OwedType, BridgeInv, DriverInv

LEMMA StepOwed == OwedInv /\ [FramingPropsNext]_framingPropsVars => OwedInv'
<1> SUFFICES ASSUME FramingTypes, OwedType, BridgeInv, DriverInv, [FramingPropsNext]_framingPropsVars
             PROVE  OwedType' /\ BridgeInv' /\ DriverInv'
  BY StepTypes DEF OwedInv
<1>1. ASSUME Connect /\ Connected PROVE OwedType' /\ BridgeInv' /\ DriverInv'
  BY <1>1, ConnectKeeps
<1>2. ASSUME (LinkEnds \/ BridgeRestarts \/ Drains) /\ UNCHANGED linkHistory PROVE OwedType' /\ BridgeInv' /\ DriverInv'
  <2>1. CASE Drains
    BY <1>2, <2>1, DrainsKeeps
  <2>2. CASE LinkEnds \/ BridgeRestarts
    <3>1. Ends /\ UNCHANGED <<owed, wrong, marks>>
      BY <1>2, <2>2 DEF LinkEnds, BridgeRestarts, linkHistory
    <3>. QED BY <3>1, EndKeeps
  <2>. QED BY <1>2, <2>1, <2>2
<1>3. ASSUME DriverRestarts, UNCHANGED <<owed, wrong, marks>> PROVE OwedType' /\ BridgeInv' /\ DriverInv'
  <2>1. Ends
    BY <1>3 DEF DriverRestarts
  <2>. QED BY <1>3, <2>1, EndKeeps
<1>4. CASE LinkNext
  BY <1>1, <1>2, <1>3, <1>4, DriverReadsKeeps, BridgeReadsKeeps DEF LinkNext
<1>5. CASE NotesNext
  BY <1>5, BridgeSendsKeeps DEF NotesNext
<1>6. CASE SongsNext
  <2>1. ASSUME DawGoesOn, WentOn PROVE OwedType' /\ BridgeInv' /\ DriverInv'
    <3>1. Head(daw) \in SongPackets /\ SendPackets(Head(daw))
      BY <2>1, DawGoesOnType DEF DawGoesOn
    <3>2. PICK expected : Delivered(Head(daw), expected)
      BY <2>1 DEF WentOn
    <3>. QED BY <3>1, <3>2, SendPacketsKeeps
  <2>2. ASSUME NEW m \in Songs, DawBegins(m), Begun(m) PROVE OwedType' /\ BridgeInv' /\ DriverInv'
    <3>1. PacketsOf(m)[1] \in SongPackets /\ SendPackets(PacketsOf(m)[1])
      BY <2>2, DawBeginsType DEF DawBegins
    <3>2. PICK expected : Delivered(PacketsOf(m)[1], expected)
      BY <2>2 DEF Begun
    <3>. QED BY <3>1, <3>2, SendPacketsKeeps
  <2>. QED BY <1>6, <2>1, <2>2 DEF SongsNext
<1>7. CASE UNCHANGED framingPropsVars
  BY <1>7 DEF framingPropsVars, framingVars, linkHistory, OwedType, BridgeInv, DriverInv, BridgeIsOwed, DriverIsOwed
<1>. QED BY <1>4, <1>5, <1>6, <1>7 DEF FramingPropsNext

\* Wherever reads end and writes stop, whatever the sizes, and however often the connection is made anew, the driver
\* reads the frames the bridge sent on it, in order and whole, unless a frame was put in the scratch buffer while the
\* socket still had to take one from it (Framing.h, FrameReader::Push; DriverLink.ts, send).
THEOREM DriverHears == FramingPropsSpec => []DriverHearsTheBridge
<1>1. OwedInv => DriverHearsTheBridge
  BY DEF OwedInv, DriverInv, DriverHearsTheBridge
<1>. QED BY <1>1, InitOwed, StepOwed, PTL DEF FramingPropsSpec

\* The bridge reads the frames the driver sent on the connection, in order and whole, unless the socket took a part
\* of one or the reader began with bytes of the connection before (driverFraming.ts, FrameReader; Link.h, WriteAll).
THEOREM BridgeHears == FramingPropsSpec => []BridgeHearsTheDriver
<1>1. OwedInv => BridgeHearsTheDriver
  BY DEF OwedInv, BridgeInv, BridgeHearsTheDriver
<1>. QED BY <1>1, InitOwed, StepOwed, PTL DEF FramingPropsSpec

-----------------------------------------------------------------------------
(* A song, packet after packet.                                            *)

\* The beginning of a SysEx message, as far as packet i, and the decoder that has put so much of it together.
Upto(m, i) == << 240 >> \o SubSeq(SysExData(m), 1, DataEnd(m, i))
Gathers(d, m, i, whole) ==
    IF whole /\ DataEnd(m, i) + 2 <= MaxSysEx THEN d = [active |-> TRUE, buffer |-> Upto(m, i)] ELSE ~d.active

\* Where packets begin.
LEMMA DataBegins ==
    ASSUME NEW m \in Songs, IsSysEx(m), NEW i \in 1..PacketCount(m)
    PROVE  /\ DataEnd(m, i - 1) = (i - 1) * PacketBytes /\ DataEnd(m, i - 1) \in Nat
           /\ DataEnd(m, i - 1) <= DataEnd(m, i) /\ DataEnd(m, i) \in 0..Len(SysExData(m)) /\ DataEnd(m, i) \in Nat
           /\ i = PacketCount(m) => DataEnd(m, i) = Len(SysExData(m))
           /\ i = PacketCount(m) /\ i > 1 => DataEnd(m, i - 1) < Len(SysExData(m))
<1> DEFINE n == Len(SysExData(m))
           L == PacketCount(m)
           b == PacketBytes
<1>1. n \in Nat /\ L \in Nat /\ L >= 1 /\ b \in Nat /\ b >= 1 /\ (L > 1 => (L - 1) * b < n)
  BY PacketCounts
<1>2. /\ (i - 1) * b \in Nat /\ DataEnd(m, i) \in Nat /\ (i - 1) * b <= DataEnd(m, i) /\ DataEnd(m, i) <= n
      /\ (i = L => DataEnd(m, i) = n)
  BY PacketData
<1>3. i \in Nat /\ i >= 1 /\ i <= L
  BY <1>1
<1>4. DataEnd(m, i - 1) = (i - 1) * b
  <2>1. CASE i = 1
    <3>1. DataEnd(m, 0) = Lesser(0 * b, n) /\ 0 * b = 0
      BY <1>1 DEF DataEnd
    <3>2. Lesser(0, n) = 0
      BY <1>1 DEF Lesser
    <3>3. i - 1 = 0
      BY <2>1
    <3>. QED BY <3>1, <3>2, <3>3
  <2>2. CASE i # 1
    <3>1. i - 1 \in 1..L /\ i - 1 < L
      BY <1>1, <1>3, <2>2
    <3>. QED BY <3>1, PacketData
  <2>. QED BY <2>1, <2>2
<1>5. DataEnd(m, i) \in 0..n
  BY <1>1, <1>2
<1>6. i = L /\ i > 1 => DataEnd(m, i - 1) < n
  BY <1>1, <1>4
<1>. QED BY <1>2, <1>4, <1>5, <1>6

\* Packet after packet, a message is put together.
LEMMA Upwards ==
    ASSUME NEW m \in Songs, IsSysEx(m), NEW i \in 1..PacketCount(m)
    PROVE  /\ Upto(m, i - 1) \o PacketAt(m, i).data = Upto(m, i)
           /\ i = 1 => Upto(m, i - 1) = << 240 >>
           /\ Upto(m, i) \in Seq(Nat) /\ Len(Upto(m, i)) = DataEnd(m, i) + 1
           /\ i = PacketCount(m) => Append(Upto(m, i), 247) = m
<1> DEFINE d == SysExData(m)
           a == DataEnd(m, i - 1)
           b == DataEnd(m, i)
           h == << 240 >>
           x == SubSeq(d, 1, a)
           y == SubSeq(d, a + 1, b)
           z == SubSeq(d, 1, b)
<1>1. d \in Seq(Nat)
  BY SysExFacts
<1>2. a \in Nat /\ a <= b /\ b \in 0..Len(d) /\ b \in Nat /\ a = (i - 1) * PacketBytes
  BY DataBegins
<1>3. PacketAt(m, i).data = y
  <2>1. PacketAt(m, i).data = SubSeq(d, ((i - 1) * PacketBytes) + 1, b)
    BY DEF PacketAt
  <2>. QED BY <1>2, <2>1
<1>4. h \in Seq(Nat) /\ Len(h) = 1
  OBVIOUS
<1>. HIDE DEF h
<1>5. Upto(m, i - 1) = h \o x /\ Upto(m, i) = h \o z
  BY DEF Upto, h
<1>6. i = PacketCount(m) => z = d
  <2>1. i = PacketCount(m) => b = Len(d)
    BY DataBegins
  <2>2. SubSeq(d, 1, Len(d)) = d
    BY <1>1, SubSeqFull
  <2>. HIDE DEF d, b
  <2>. QED BY <2>1, <2>2
<1>. HIDE DEF d, b
<1>7. z \in Seq(Nat) /\ Len(z) = b
  BY <1>1, <1>2, Before
<1>8. i = 1 => a = 0
  BY <1>2, SizesAssumption
<1>. HIDE DEF a
<1>9. x \o y = z
  <2>1. 1 \in 1..Len(d) + 1 /\ a \in 1 - 1..Len(d) /\ b \in a..Len(d)
    BY <1>1, <1>2
  <2>. QED BY <1>1, <2>1, ConcatAdjacentSubSeq
<1>10. x \in Seq(Nat) /\ Len(x) = a
  <2>1. a \in 0..Len(d)
    BY <1>1, <1>2
  <2>. QED BY <1>1, <2>1, Before
<1>11. y \in Seq(Nat)
  <2>1. a + 1 \in Nat \ {0}
    BY <1>2
  <2>. QED BY <1>1, <1>2, <2>1, CutFacts
<1>12. (h \o x) \o y = h \o z
  <2> DEFINE V == Nat
             e == h \o x
  <2>1. h \in Seq(V) /\ x \in Seq(V) /\ y \in Seq(V) /\ z = x \o y /\ e = h \o x
    BY <1>4, <1>9, <1>10, <1>11
  <2>. HIDE DEF V, e, x, y, z
  <2>2. e \o y = h \o z
    BY <2>1, Regrouped, SMTT(60)
  <2>. QED BY <2>2 DEF e
<1>13. i = 1 => h \o x = h
  <2>1. i = 1 => x = <<>>
    <3>. HIDE DEF x
    <3>. QED BY <1>8, <1>10, EmptySeq
  <2>2. h \o <<>> = h
    BY <1>4, ConcatEmptySeq
  <2>. QED BY <2>1, <2>2
<1>. HIDE DEF x, y
<1> DEFINE u == h \o z
<1>14. u \in Seq(Nat) /\ Len(u) = Len(h) + Len(z)
  <2>. HIDE DEF z
  <2>. QED BY <1>4, <1>7, Concatenated
<1>15. i = PacketCount(m) => Append(h \o d, 247) = m
  BY SysExFacts DEF h, d
<1>. HIDE DEF z
<1>16. Upto(m, i - 1) \o PacketAt(m, i).data = Upto(m, i)
  BY <1>3, <1>5, <1>12
<1>17. i = 1 => Upto(m, i - 1) = << 240 >>
  BY <1>5, <1>13 DEF h
<1>18. Upto(m, i) = u
  BY <1>5
<1>19. i = PacketCount(m) => Append(Upto(m, i), 247) = m
  BY <1>5, <1>6, <1>15
<1>. HIDE DEF u
<1>20. Len(u) = b + 1
  BY <1>2, <1>4, <1>7, <1>14
<1>. QED BY <1>14, <1>16, <1>17, <1>18, <1>19, <1>20 DEF b

\* A packet of a message that is being put together.
LEMMA DecodeOpen ==
    ASSUME NEW d, NEW p, p.type = "sysex", NEW full,
           \/ p.status \in {Whole, Start} /\ full = << 240 >> \o p.data
           \/ p.status \notin {Whole, Start} /\ d.active = TRUE /\ full = d.buffer \o p.data
    PROVE  Decode(d, p) =
                IF Len(full) > MaxSysEx - 1 THEN [decoder |-> NewDecoder, messages |-> <<>>]
                ELSE IF p.status \in {Whole, End} THEN [decoder |-> NewDecoder, messages |-> <<Append(full, 247)>>]
                ELSE [decoder |-> [active |-> TRUE, buffer |-> full], messages |-> <<>>]
<1> DEFINE begun == IF p.status \in {Whole, Start} THEN [active |-> TRUE, buffer |-> << 240 >>] ELSE d
<1>1. begun.active = TRUE /\ begun.buffer \o p.data = full
  OBVIOUS
<1>2. Decode(d, p) = DecodeSysEx7(d, p)
  BY DEF Decode
<1>3. DecodeSysEx7(d, p) =
         CASE ~begun.active -> [decoder |-> d, messages |-> <<>>]
           [] begun.active /\ Len(begun.buffer \o p.data) > MaxSysEx - 1 -> [decoder |-> NewDecoder, messages |-> <<>>]
           [] OTHER -> IF p.status \in {Whole, End}
                       THEN [decoder |-> NewDecoder, messages |-> <<Append(begun.buffer \o p.data, 247)>>]
                       ELSE [decoder |-> [active |-> TRUE, buffer |-> begun.buffer \o p.data], messages |-> <<>>]
  BY DEF DecodeSysEx7
<1>. HIDE DEF begun
<1>. QED BY <1>1, <1>2, <1>3

\* A packet behind one that was lost, or that was too much.
LEMMA DecodeShut ==
    ASSUME NEW d, NEW p, p.type = "sysex", p.status \notin {Whole, Start}, ~d.active
    PROVE  Decode(d, p) = [decoder |-> d, messages |-> <<>>]
BY DEF Decode, DecodeSysEx7

LEMMA PacketIs ==
    ASSUME NEW m, NEW i
    PROVE  PacketAt(m, i).type = "sysex" /\ PacketAt(m, i).status = StatusOf(m, i)
BY DEF PacketAt

LEMMA Statuses ==
    ASSUME NEW m \in Songs, IsSysEx(m), NEW i \in 1..PacketCount(m)
    PROVE  /\ StatusOf(m, i) \in {Whole, Start} <=> i = 1
           /\ StatusOf(m, i) \in {Whole, End} <=> i = PacketCount(m)
<1>1. PacketCount(m) \in Nat /\ PacketCount(m) >= 1
  BY PacketCounts
<1>2. i \in Nat /\ i >= 1 /\ i <= PacketCount(m)
  BY <1>1
<1>3. CASE 1 = i /\ i = PacketCount(m)
  <2>1. StatusOf(m, i) = Whole
    BY <1>1, <1>3 DEF StatusOf
  <2>. QED BY <1>3, <2>1 DEF Whole, Start, End
<1>4. CASE 1 = i /\ i < PacketCount(m)
  <2>1. StatusOf(m, i) = Start
    BY <1>1, <1>4 DEF StatusOf
  <2>. QED BY <1>1, <1>4, <2>1 DEF Whole, Start, End
<1>5. CASE 1 < i /\ i = PacketCount(m)
  <2>1. StatusOf(m, i) = End
    BY <1>1, <1>5 DEF StatusOf
  <2>. QED BY <1>1, <1>5, <2>1 DEF Whole, Start, End
<1>6. CASE 1 < i /\ i < PacketCount(m)
  <2>1. StatusOf(m, i) = Continue
    BY <1>1, <1>6 DEF StatusOf
  <2>. QED BY <1>1, <1>6, <2>1 DEF Whole, Start, Continue, End
<1>. QED BY <1>1, <1>2, <1>3, <1>4, <1>5, <1>6

\* Packet i of a message, of which the decoder has those before: the message is complete with the last, if it fits
\* and the decoder had all of it.
LEMMA PacketArrives ==
    ASSUME NEW m \in Songs, IsSysEx(m), NEW i \in 1..PacketCount(m), NEW d, NEW whole \in BOOLEAN,
           i = 1 => whole, i > 1 => Gathers(d, m, i - 1, whole)
    PROVE  LET r == Decode(d, PacketAt(m, i))
           IN  /\ r.messages = IF i = PacketCount(m) /\ whole /\ Len(m) <= MaxSysEx THEN <<m>> ELSE <<>>
               /\ i < PacketCount(m) => Gathers(r.decoder, m, i, whole)
<1> DEFINE p == PacketAt(m, i)
           r == Decode(d, p)
           L == PacketCount(m)
           a == DataEnd(m, i - 1)
           b == DataEnd(m, i)
           full == Upto(m, i - 1) \o p.data
<1>1. /\ a \in Nat /\ b \in Nat /\ a <= b /\ (i = L => b = Len(m) - 2) /\ (i = L /\ i > 1 => a < b)
      /\ L \in Nat /\ i \in Nat /\ i >= 1 /\ i <= L /\ MaxSysEx \in Nat /\ Len(m) \in Nat
  <2>1. L \in Nat /\ MaxSysEx \in Nat /\ Len(m) \in Nat /\ Len(SysExData(m)) = Len(m) - 2
    <3>1. L \in Nat
      BY PacketCounts
    <3>2. Len(m) \in Nat /\ Len(SysExData(m)) = Len(m) - 2
      BY SysExFacts
    <3>3. MaxSysEx \in Nat
      BY SizesAssumption
    <3>. QED BY <3>1, <3>2, <3>3
  <2>2. a \in Nat /\ b \in Nat /\ a <= b /\ (i = L => b = Len(SysExData(m))) /\ (i = L /\ i > 1 => a < Len(SysExData(m)))
    BY DataBegins
  <2>3. i \in Nat /\ i >= 1 /\ i <= L
    BY <2>1
  <2>. HIDE DEF a, b, L
  <2>. QED BY <2>1, <2>2, <2>3
<1>2. p.type = "sysex" /\ (p.status \in {Whole, Start} <=> i = 1) /\ (p.status \in {Whole, End} <=> i = L)
  BY PacketIs, Statuses
<1>3. full = Upto(m, i) /\ Len(full) = b + 1 /\ (i = L => Append(full, 247) = m) /\ (i = 1 => Upto(m, i - 1) = << 240 >>)
  <2>1. full = Upto(m, i)
    BY Upwards
  <2>2. Len(Upto(m, i)) = b + 1
    BY Upwards
  <2>3. (i = L => Append(Upto(m, i), 247) = m) /\ (i = 1 => Upto(m, i - 1) = << 240 >>)
    BY Upwards
  <2>. HIDE DEF full
  <2>. QED BY <2>1, <2>2, <2>3
<1>4. NewDecoder.active = FALSE
  BY DEF NewDecoder
<1>5. CASE i = 1 \/ (whole /\ a + 2 <= MaxSysEx)
  <2>1. \/ p.status \in {Whole, Start} /\ full = << 240 >> \o p.data
        \/ p.status \notin {Whole, Start} /\ d.active = TRUE /\ full = d.buffer \o p.data
    <3>1. CASE i = 1
      BY <1>2, <1>3, <3>1
    <3>2. CASE i # 1
      <4>1. i > 1
        BY <1>1, <3>2
      <4>2. d = [active |-> TRUE, buffer |-> Upto(m, i - 1)]
        BY <1>5, <3>2, <4>1 DEF Gathers
      <4>3. d.active = TRUE /\ d.buffer = Upto(m, i - 1)
        BY <4>2
      <4>. HIDE DEF p
      <4>. QED BY <1>2, <3>2, <4>3
    <3>. QED BY <3>1, <3>2
  <2>2. whole
    BY <1>5
  <2>. HIDE DEF full, p, a, b, L
  <2>3. r = IF Len(full) > MaxSysEx - 1 THEN [decoder |-> NewDecoder, messages |-> <<>>]
            ELSE IF p.status \in {Whole, End} THEN [decoder |-> NewDecoder, messages |-> <<Append(full, 247)>>]
            ELSE [decoder |-> [active |-> TRUE, buffer |-> full], messages |-> <<>>]
    BY <1>2, <2>1, DecodeOpen, ZenonT(60)
  <2>. HIDE DEF r
  <2>4. Len(full) > MaxSysEx - 1 <=> ~(b + 2 <= MaxSysEx)
    BY <1>1, <1>3
  <2>5. i = L => (b + 2 <= MaxSysEx <=> Len(m) <= MaxSysEx)
    BY <1>1
  <2>6. CASE ~(b + 2 <= MaxSysEx)
    <3>1. r = [decoder |-> NewDecoder, messages |-> <<>>]
      BY <2>3, <2>4, <2>6
    <3>2. r.messages = <<>> /\ ~r.decoder.active
      BY <1>4, <3>1
    <3>3. Gathers(r.decoder, m, i, whole)
      BY <2>6, <3>2 DEF Gathers, b
    <3>. QED BY <2>5, <2>6, <3>2, <3>3 DEF r, p, L
  <2>7. CASE b + 2 <= MaxSysEx /\ i = L
    <3>1. r = [decoder |-> NewDecoder, messages |-> <<Append(full, 247)>>]
      BY <1>2, <2>3, <2>4, <2>7
    <3>2. r.messages = <<m>>
      BY <1>3, <2>7, <3>1
    <3>3. ~(i < L)
      BY <1>1, <2>7
    <3>. QED BY <2>2, <2>5, <2>7, <3>2, <3>3 DEF r, p, L
  <2>8. CASE b + 2 <= MaxSysEx /\ i # L
    <3>1. r = [decoder |-> [active |-> TRUE, buffer |-> full], messages |-> <<>>]
      BY <1>2, <2>3, <2>4, <2>8
    <3>2. r.messages = <<>> /\ r.decoder = [active |-> TRUE, buffer |-> Upto(m, i)]
      BY <1>3, <3>1
    <3>3. Gathers(r.decoder, m, i, whole)
      BY <2>2, <2>8, <3>2 DEF Gathers, b
    <3>. QED BY <2>8, <3>2, <3>3 DEF r, p, L
  <2>. QED BY <2>6, <2>7, <2>8
<1>6. CASE i # 1 /\ ~(whole /\ a + 2 <= MaxSysEx)
  <2>1. ~d.active
    <3>1. i > 1
      BY <1>1, <1>6
    <3>. QED BY <1>6, <3>1 DEF Gathers
  <2>. HIDE DEF p, a, b, L
  <2>2. r = [decoder |-> d, messages |-> <<>>]
    BY <1>2, <1>6, <2>1, DecodeShut
  <2>. HIDE DEF r
  <2>3. r.messages = <<>> /\ ~r.decoder.active
    BY <2>1, <2>2
  <2>4. ~(whole /\ b + 2 <= MaxSysEx)
    BY <1>1, <1>6
  <2>5. Gathers(r.decoder, m, i, whole)
    BY <2>3, <2>4 DEF Gathers, b
  <2>6. ~(i = L /\ whole /\ Len(m) <= MaxSysEx)
    BY <1>1, <2>4
  <2>. QED BY <2>3, <2>5, <2>6 DEF r, p, L
<1>. QED BY <1>5, <1>6

\* A short message is what its packet says, and no decoder hears of it.
LEMMA ShortArrives ==
    ASSUME NEW m \in Songs, ~IsSysEx(m), NEW d
    PROVE  Decode(d, PacketsOf(m)[1]) = [decoder |-> d, messages |-> <<m>>] /\ Len(PacketsOf(m)) = 1
<1> DEFINE z == <<0, 0>>
           x == m \o z
           p == [type |-> "voice", data |-> x]
           n == Midi1MessageLength(p.data[1])
<1>1. m \in Seq(Nat) /\ m # <<>> /\ Len(m) = Midi1MessageLength(m[1])
  BY SongsAssumption
<1>2. Len(m) \in Nat /\ Len(m) >= 1
  BY <1>1, EmptySeq
<1>3. z \in Seq(Nat)
  OBVIOUS
<1>4. PacketsOf(m) = <<p>>
  BY DEF PacketsOf
<1>. HIDE DEF z
<1>5. \A i \in 1..Len(m) : x[i] = m[i]
  BY <1>1, <1>3, Concatenated
<1>6. SubSeq(x, 1, Len(m)) = m
  BY <1>1, <1>3, FrontOfTwo
<1>. HIDE DEF x
<1>7. x[1] = m[1]
  BY <1>2, <1>5
<1>8. n = Len(m) /\ n > 0
  BY <1>1, <1>2, <1>7
<1>9. p.type = "voice" /\ p.data = x
  OBVIOUS
<1>10. PacketsOf(m)[1] = p /\ Len(PacketsOf(m)) = 1
  BY <1>4
<1>. HIDE DEF p
<1>11. Decode(d, p) = [decoder |-> d, messages |-> <<SubSeq(p.data, 1, n)>>]
  BY <1>8, <1>9 DEF Decode
<1>. QED BY <1>6, <1>8, <1>9, <1>10, <1>11

\* What the DAW has still to send is the end of its message, and the decoder has the beginning, if it fits and one
\* driver had all of it.
Playing ==
    LET m == song.is
        j == PacketCount(m) - Len(daw)
    IN  /\ m \in Songs /\ IsSysEx(m)
        /\ j \in 1..PacketCount(m)
        /\ \A i \in 1..Len(daw) : daw[i] = PacketAt(m, j + i)
        /\ daw # <<>> => Gathers(dec, m, j, song.whole)
SongType == song \in [is : Songs \cup {<<>>}, whole : BOOLEAN] /\ dec \in Decoders /\ daw \in Seq(SongPackets)
SongInv == "song" \notin wrong /\ SongType /\ (daw # <<>> \/ song.is # <<>> => Playing)

LEMMA NextPacket ==
    ASSUME SongType, Playing, daw # <<>>
    PROVE  LET m == song.is
               i == PacketCount(m) - Len(daw) + 1
           IN  /\ m \in Songs /\ IsSysEx(m) /\ i \in 1..PacketCount(m) /\ i > 1
               /\ Head(daw) = PacketAt(m, i) /\ Gathers(dec, m, i - 1, song.whole)
               /\ Tail(daw) \in Seq(SongPackets) /\ PacketCount(m) - Len(Tail(daw)) = i
               /\ (Len(daw) = 1 <=> i = PacketCount(m)) /\ (Tail(daw) # <<>> => i < PacketCount(m))
               /\ \A k \in 1..Len(Tail(daw)) : Tail(daw)[k] = PacketAt(m, i + k)
<1> DEFINE m == song.is
           L == PacketCount(m)
           N == Len(daw)
           j == L - N
           i == j + 1
           t == Tail(daw)
<1>1. /\ m \in Songs /\ IsSysEx(m) /\ j \in 1..L /\ (\A k \in 1..N : daw[k] = PacketAt(m, j + k))
      /\ Gathers(dec, m, j, song.whole)
  BY DEF Playing
<1>2. L \in Nat
  BY <1>1, PacketCounts
<1>3. daw \in Seq(SongPackets)
  BY DEF SongType
<1>4. N \in Nat /\ N >= 1
  BY <1>3, EmptySeq
<1>5. t \in Seq(SongPackets) /\ Len(t) = N - 1 /\ Head(daw) = daw[1] /\ \A k \in 1..Len(t) : t[k] = daw[k + 1]
  BY <1>3, HeadTailProperties
<1>. HIDE DEF t, N
<1>6. j \in Nat /\ j >= 1 /\ j <= L /\ j = L - N
  <2>. HIDE DEF L
  <2>. QED BY <1>1, <1>2, <1>4
<1>. HIDE DEF L, j
<1>7. i \in 1..L /\ i > 1 /\ i - 1 = j /\ L - Len(t) = i /\ (N = 1 <=> i = L)
  BY <1>2, <1>4, <1>5, <1>6
<1>8. t # <<>> => i < L
  <2>1. t # <<>> => Len(t) # 0
    BY <1>5, EmptySeq
  <2>. QED BY <1>2, <1>4, <1>5, <1>6, <2>1
<1>9. Head(daw) = PacketAt(m, i)
  <2>1. 1 \in 1..N
    BY <1>4
  <2>2. daw[1] = PacketAt(m, j + 1)
    BY <1>1, <2>1
  <2>. QED BY <1>5, <2>2
<1>10. ASSUME NEW k \in 1..Len(t) PROVE t[k] = PacketAt(m, i + k)
  <2>1. k + 1 \in 1..N /\ j + (k + 1) = i + k
    BY <1>4, <1>5, <1>6
  <2>2. daw[k + 1] = PacketAt(m, j + (k + 1))
    BY <1>1, <2>1
  <2>. QED BY <1>5, <2>1, <2>2
<1>11. Gathers(dec, m, i - 1, song.whole)
  BY <1>1, <1>7
<1>. QED BY <1>1, <1>5, <1>7, <1>8, <1>9, <1>10, <1>11 DEF t, N, L, j

LEMMA WentOnKeeps ==
    ASSUME SongInv, DawGoesOn, WentOn
    PROVE  SongInv'
<1> DEFINE m == song.is
           L == PacketCount(m)
           i == L - Len(daw) + 1
           r == Decode(dec, Head(daw))
           t == Tail(daw)
           e == IF Len(daw) = 1 /\ song.whole /\ Len(m) <= MaxSysEx THEN <<m>> ELSE <<>>
<1>1. daw # <<>> /\ daw' = t /\ dec' = r.decoder /\ song' = song
  BY DEF DawGoesOn, SendPackets, WentOn
<1>2. wrong' = IF r.messages = e THEN wrong ELSE wrong \cup {"song"}
  BY DEF WentOn, Delivered
<1>3. SongType /\ Playing /\ "song" \notin wrong
  BY <1>1 DEF SongInv
<1>4. /\ m \in Songs /\ IsSysEx(m) /\ i \in 1..L /\ i > 1 /\ Head(daw) = PacketAt(m, i)
      /\ Gathers(dec, m, i - 1, song.whole) /\ t \in Seq(SongPackets) /\ L - Len(t) = i
      /\ (Len(daw) = 1 <=> i = L) /\ (t # <<>> => i < L)
  BY <1>1, <1>3, NextPacket
<1>5. \A k \in 1..Len(t) : t[k] = PacketAt(m, i + k)
  BY <1>1, <1>3, NextPacket
<1>. HIDE DEF i, t
<1>6. song.whole \in BOOLEAN /\ dec \in Decoders /\ Head(daw) \in SongPackets
  <2>1. daw \in Seq(SongPackets) /\ song.whole \in BOOLEAN /\ dec \in Decoders
    BY <1>3 DEF SongType
  <2>. QED BY <1>1, <2>1, HeadTailProperties
<1>7. i # 1
  BY <1>4
<1>8. /\ r.messages = (IF i = L /\ song.whole /\ Len(m) <= MaxSysEx THEN <<m>> ELSE <<>>)
      /\ i < L => Gathers(r.decoder, m, i, song.whole)
  <2> DEFINE p == Head(daw)
             w == song.whole
  <2>1. m \in Songs /\ IsSysEx(m) /\ i \in 1..PacketCount(m) /\ w \in BOOLEAN /\ i # 1 /\ Gathers(dec, m, i - 1, w)
        /\ p = PacketAt(m, i)
    BY <1>4, <1>6, <1>7
  <2>. HIDE DEF m, w, p
  <2>2. /\ Decode(dec, PacketAt(m, i)).messages = IF i = PacketCount(m) /\ w /\ Len(m) <= MaxSysEx THEN <<m>> ELSE <<>>
        /\ i < PacketCount(m) => Gathers(Decode(dec, PacketAt(m, i)).decoder, m, i, w)
    BY <2>1, PacketArrives
  <2>. QED BY <2>1, <2>2 DEF w, p
<1>9. r.decoder \in Decoders
  BY <1>6, Decodes
<1>. HIDE DEF r
<1>10. r.messages = e
  BY <1>4, <1>8
<1>. HIDE DEF e
<1>11. "song" \notin wrong'
  BY <1>2, <1>3, <1>10
<1>12. SongType'
  BY <1>1, <1>3, <1>4, <1>9 DEF SongType
<1>13. Playing'
  <2>1. song'.is = m /\ PacketCount(m) - Len(daw') = i /\ song'.whole = song.whole
    BY <1>1, <1>4
  <2>2. daw' # <<>> => Gathers(dec', m, i, song.whole)
    BY <1>1, <1>4, <1>8
  <2>3. \A k \in 1..Len(daw') : daw'[k] = PacketAt(m, i + k)
    BY <1>1, <1>5
  <2>. HIDE DEF m
  <2>. QED BY <1>4, <2>1, <2>2, <2>3 DEF Playing
<1>. QED BY <1>11, <1>12, <1>13 DEF SongInv

\* A message is begun, whatever became of the one before.
LEMMA BegunKeeps ==
    ASSUME SongInv, NEW m \in Songs, DawBegins(m), Begun(m)
    PROVE  SongInv'
<1> DEFINE q == PacketsOf(m)
           L == PacketCount(m)
           r == Decode(dec, q[1])
           e == IF Len(q) = 1 /\ (Len(m) <= MaxSysEx \/ ~IsSysEx(m)) THEN <<m>> ELSE <<>>
<1>1. /\ daw' = (IF IsSysEx(m) THEN Tail(q) ELSE daw) /\ dec' = r.decoder
      /\ song' = IF IsSysEx(m) THEN [is |-> m, whole |-> TRUE] ELSE song
  BY DEF DawBegins, SendPackets, Begun
<1>2. wrong' = IF r.messages = e THEN wrong ELSE wrong \cup {"song"}
  BY DEF Begun, Delivered
<1>3. SongType /\ "song" \notin wrong
  BY DEF SongInv
<1>4. CASE ~IsSysEx(m)
  <2>1. r = [decoder |-> dec, messages |-> <<m>>] /\ Len(q) = 1
    BY <1>4, ShortArrives
  <2>2. r.messages = e /\ dec' = dec /\ daw' = daw /\ song' = song
    BY <1>1, <1>4, <2>1
  <2>. HIDE DEF r, e, q
  <2>3. wrong' = wrong
    BY <1>2, <2>2
  <2>4. Playing => Playing'
    BY <2>2 DEF Playing
  <2>. QED BY <2>2, <2>3, <2>4 DEF SongInv, SongType
<1>5. CASE IsSysEx(m)
  <2>1. L \in Nat /\ L >= 1
    BY <1>5, PacketCounts
  <2>2. q \in Seq(SongPackets) /\ q # <<>> /\ Len(q) = L
    BY <1>5, Packing
  <2>3. \A k \in 1..L : q[k] = PacketAt(m, k)
    BY <1>5, Packing
  <2> DEFINE t == Tail(q)
  <2>4. t \in Seq(SongPackets) /\ Len(t) = L - 1 /\ \A k \in 1..Len(t) : t[k] = q[k + 1]
    BY <2>2, HeadTailProperties
  <2>. HIDE DEF t
  <2>5. 1 \in 1..L /\ q[1] = PacketAt(m, 1) /\ 1 \in 1..PacketCount(m) /\ q[1] \in SongPackets
    <3>1. 1 \in 1..L /\ 1 \in 1..Len(q)
      BY <2>1, <2>2
    <3>2. q[1] \in SongPackets
      BY <2>2, <3>1, ElementOfSeq
    <3>. QED BY <2>3, <3>1, <3>2
  <2>6. r.decoder \in Decoders
    BY <1>3, <2>5, Decodes DEF SongType
  <2>7. /\ r.messages = (IF 1 = L /\ Len(m) <= MaxSysEx THEN <<m>> ELSE <<>>)
        /\ 1 < L => Gathers(r.decoder, m, 1, TRUE)
    <3> DEFINE one == 1
    <3>1. one \in 1..PacketCount(m) /\ one = 1 /\ ~(one > 1)
      BY <2>5
    <3>. HIDE DEF one
    <3>2. /\ Decode(dec, PacketAt(m, one)).messages = IF one = PacketCount(m) /\ TRUE /\ Len(m) <= MaxSysEx THEN <<m>> ELSE <<>>
          /\ one < PacketCount(m) => Gathers(Decode(dec, PacketAt(m, one)).decoder, m, one, TRUE)
      BY <1>5, <3>1, PacketArrives
    <3>. QED BY <2>5, <3>1, <3>2
  <2>. HIDE DEF r
  <2>8. r.messages = e
    <3>. HIDE DEF q
    <3>. QED BY <1>5, <2>2, <2>7
  <2>. HIDE DEF e
  <2>9. "song" \notin wrong'
    BY <1>2, <1>3, <2>8
  <2>10. daw' = t /\ song'.is = m /\ song'.whole = TRUE /\ dec' = r.decoder /\ song' \in [is : Songs \cup {<<>>}, whole : BOOLEAN]
    BY <1>1, <1>5 DEF t
  <2>11. SongType'
    BY <2>4, <2>6, <2>10 DEF SongType
  <2>12. L - Len(t) = 1 /\ (t # <<>> => 1 < L)
    <3>1. t # <<>> => Len(t) # 0
      BY <2>4, EmptySeq
    <3>. HIDE DEF L
    <3>. QED BY <2>1, <2>4, <3>1
  <2>13. \A k \in 1..Len(t) : t[k] = PacketAt(m, 1 + k)
    <3>. SUFFICES ASSUME NEW k \in 1..Len(t) PROVE t[k] = PacketAt(m, 1 + k)
      OBVIOUS
    <3>1. k + 1 \in 1..L /\ k + 1 = 1 + k
      <4>. HIDE DEF L
      <4>. QED BY <2>1, <2>4
    <3>2. t[k] = q[k + 1] /\ q[k + 1] = PacketAt(m, k + 1)
      BY <2>3, <2>4, <3>1
    <3>. QED BY <3>1, <3>2
  <2>14. Playing'
    <3>1. PacketCount(m) - Len(daw') = 1 /\ (daw' # <<>> => Gathers(dec', m, 1, song'.whole))
      BY <2>7, <2>10, <2>12
    <3>2. \A k \in 1..Len(daw') : daw'[k] = PacketAt(m, 1 + k)
      BY <2>10, <2>13
    <3>. HIDE DEF q, L
    <3>. QED BY <1>5, <2>5, <2>10, <3>1, <3>2 DEF Playing
  <2>. QED BY <2>9, <2>11, <2>14 DEF SongInv
<1>. QED BY <1>4, <1>5

LEMMA RestartKeeps ==
    ASSUME SongInv, DriverRestarts, song' = [song EXCEPT !.whole = FALSE], UNCHANGED wrong
    PROVE  SongInv'
<1>1. dec' = NewDecoder /\ daw' = daw /\ wrong' = wrong
  BY DEF DriverRestarts
<1>2. NewDecoder \in Decoders /\ ~NewDecoder.active
  BY DEF NewDecoder, Decoders
<1>3. song'.is = song.is /\ song'.whole = FALSE /\ song' \in [is : Songs \cup {<<>>}, whole : BOOLEAN]
  BY DEF SongInv, SongType
<1>4. Playing => Playing'
  <2>1. \A m, j : Gathers(dec', m, j, song'.whole)
    BY <1>1, <1>2, <1>3 DEF Gathers
  <2>. QED BY <1>1, <1>3, <2>1 DEF Playing
<1>. QED BY <1>1, <1>2, <1>3, <1>4 DEF SongInv, SongType

\* Of all else no decoder hears.
LEMMA ElseKeeps ==
    ASSUME SongInv, UNCHANGED <<dec, daw, song>>, "song" \in wrong' => "song" \in wrong
    PROVE  SongInv'
<1>1. Playing => Playing'
  BY DEF Playing
<1>. QED BY <1>1 DEF SongInv, SongType

LEMMA InitSong == FramingPropsInit => SongInv
<1> SUFFICES ASSUME FramingPropsInit PROVE SongInv
  OBVIOUS
<1>1. dec = NewDecoder /\ daw = <<>> /\ wrong = {} /\ song = Silence
  BY DEF FramingPropsInit, FramingInit
<1>2. NewDecoder \in Decoders /\ <<>> \in Seq(SongPackets)
  BY DEF NewDecoder, Decoders
<1>3. Silence \in [is : Songs \cup {<<>>}, whole : BOOLEAN] /\ Silence.is = <<>>
  BY DEF Silence
<1>. QED BY <1>1, <1>2, <1>3 DEF SongInv, SongType

LEMMA ReadsElse ==
    ASSUME NEW end \in {"driver", "bridge"}, NEW ok, NEW a, Read(end, ok, a)
    PROVE  song' = song /\ ("song" \in wrong' => "song" \in wrong)
BY DEF Read

LEMMA StepSong == SongInv /\ [FramingPropsNext]_framingPropsVars => SongInv'
<1> SUFFICES ASSUME SongInv, [FramingPropsNext]_framingPropsVars PROVE SongInv'
  OBVIOUS
<1>1. CASE LinkNext
  <2>1. ASSUME Connect, Connected PROVE SongInv'
    <3>1. UNCHANGED <<dec, daw, song>> /\ ("song" \in wrong' => "song" \in wrong)
      BY <2>1 DEF Connect, Connected
    <3>. QED BY <3>1, ElseKeeps
  <2>2. ASSUME LinkEnds \/ BridgeRestarts \/ Drains, UNCHANGED linkHistory PROVE SongInv'
    <3>1. UNCHANGED <<dec, daw, song>> /\ wrong' = wrong
      BY <2>2 DEF LinkEnds, BridgeRestarts, Drains, linkHistory
    <3>. QED BY <3>1, ElseKeeps
  <2>3. ASSUME NEW n \in 1..Room, DriverReads(n),
               LET push == DriverPush(held, SubSeq(down, 1, n)) IN Read("driver", push.ok, OnFromBridge(push.frames))
        PROVE  SongInv'
    <3>1. song' = song /\ ("song" \in wrong' => "song" \in wrong)
      BY <2>3, ReadsElse
    <3>2. dec' = dec /\ daw' = daw
      BY <2>3 DEF DriverReads
    <3>. QED BY <3>1, <3>2, ElseKeeps
  <2>4. ASSUME NEW n \in 1..Room, BridgeReads(n),
               LET push == BridgePush(reader, SubSeq(up, 1, n)) IN Read("bridge", push.ok, Handle(push.frames))
        PROVE  SongInv'
    <3>1. song' = song /\ ("song" \in wrong' => "song" \in wrong)
      BY <2>4, ReadsElse
    <3>2. dec' = dec /\ daw' = daw
      BY <2>4 DEF BridgeReads
    <3>. QED BY <3>1, <3>2, ElseKeeps
  <2>5. ASSUME DriverRestarts, song' = [song EXCEPT !.whole = FALSE], UNCHANGED <<owed, wrong, marks>> PROVE SongInv'
    BY <2>5, RestartKeeps
  <2>. QED BY <1>1, <2>1, <2>2, <2>3, <2>4, <2>5 DEF LinkNext
<1>2. CASE NotesNext
  <2>1. UNCHANGED <<dec, daw, song>> /\ wrong' = wrong
    BY <1>2 DEF NotesNext, BridgeSends, Wrote
  <2>. QED BY <2>1, ElseKeeps
<1>3. CASE SongsNext
  BY <1>3, WentOnKeeps, BegunKeeps DEF SongsNext
<1>4. CASE UNCHANGED framingPropsVars
  <2>1. UNCHANGED <<dec, daw, song>> /\ wrong' = wrong
    BY <1>4 DEF framingPropsVars, framingVars, linkHistory
  <2>. QED BY <2>1, ElseKeeps
<1>. QED BY <1>1, <1>2, <1>3, <1>4 DEF FramingPropsNext

\* A SysEx message of the DAW, in any number of packets, with others abandoned before it and short messages in its
\* midst, is put together as it was if it fits and one driver had all of it, and nothing else is; a short message is
\* what its packet says (Ump.h, DecodeSysEx7).
THEOREM SongsWhole == FramingPropsSpec => []SongsArriveWhole
<1>1. SongInv => SongsArriveWhole
  BY DEF SongInv, SongsArriveWhole
<1>. QED BY <1>1, InitSong, StepSong, PTL DEF FramingPropsSpec
=============================================================================
