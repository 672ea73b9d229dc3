-------------------------------- MODULE Setup --------------------------------
(***************************************************************************)
(* What the bridge leaves on the machine: the CoreMIDI driver it installs  *)
(* and removes (midi/driverInstall.ts, midi/coreMidiIdentity.ts), the      *)
(* login item (setup/autostart.ts, setup/firstRun.ts) and its certificate  *)
(* (setup/certificate.ts), on macOS.                                       *)
(*                                                                         *)
(* The bridge is stopped anywhere between two of its writes; what it wrote *)
(* stays.  MIDIServer, launched on demand, loads a whole copy of the       *)
(* driver, whose Start() puts the devices into the persisted MIDI setup.   *)
(***************************************************************************)
EXTENDS Naturals

CONSTANTS
    Addresses,      \* addresses a machine may have
    MaxActs         \* bound: what is asked of the bridge

VARIABLES
    copies,     \* scope -> what of the driver is in its folder: "none", "part", "whole"
    server,     \* MIDIServer: "off", or running "with" the driver or "without"
    listed,     \* devices of the driver's that are in the MIDI setup
    task,       \* what the bridge is about, and the step it comes to
    told,       \* what the last of it came to
    service,    \* the login item of the system: "off", "on", "approval"
    plist,      \* the LaunchAgent is there
    marker,     \* FIRST_RUN is there
    files,      \* the certificate's files: which certificate the first and the second are of, what it covers,
                \* and the names in the third
    acts

driverVars == <<copies, server, listed>>
loginVars == <<service, plist, marker>>
vars == <<driverVars, loginVars, task, told, files, acts>>

Scopes == {"user", "system"}
Published == {"launchpad-x", "launchpad-pro-mk3"}
Idle == [op |-> "none", at |-> 0]
Task(op) == [op |-> op, at |-> 1]
NoFile == 0

Init ==
    /\ copies = [s \in Scopes |-> "none"] /\ server = "off" /\ listed = {}
    /\ task = Idle /\ told = "nothing"
    /\ service = "off" /\ plist \in BOOLEAN /\ marker = FALSE
    /\ files = [cert |-> NoFile, covers |-> {}, key |-> NoFile, names |-> {}]
    /\ acts = 0

Asked == task = Idle /\ acts < MaxActs /\ acts' = acts + 1
Comes(to) == task' = Idle /\ told' = to
GoesOn == task' = [task EXCEPT !.at = @ + 1] /\ UNCHANGED told

\* driverScopes()
DriverScopes == {s \in Scopes : copies[s] # "none"}

\* reloadMidiServer()
Reload == server' = "off" /\ UNCHANGED listed

\* installDriver() for this user: the copy there was goes first, and the new one takes time.
InstallUser ==
    /\ task.op = "install"
    /\ \/ task.at = 1 /\ copies' = [copies EXCEPT !.user = "none"] /\ GoesOn /\ UNCHANGED <<server, listed>>
       \/ task.at = 2 /\ copies' = [copies EXCEPT !.user = "part"] /\ GoesOn /\ UNCHANGED <<server, listed>>
       \/ task.at = 3 /\ copies' = [copies EXCEPT !.user = "whole"] /\ GoesOn /\ UNCHANGED <<server, listed>>
       \/ task.at = 3 /\ Comes("failed") /\ UNCHANGED driverVars
       \/ task.at = 4 /\ Reload /\ Comes("installed-for-the-user") /\ UNCHANGED copies
    /\ UNCHANGED <<loginVars, files, acts>>

\* installScript(): a chain of commands, any of which may fail, that ends in "|| true".
Script == {"none", "part", "whole", copies.system}

\* installDriver() for everyone; the password prompt may be cancelled.
InstallSystem ==
    /\ task.op = "install-everywhere"
    /\ \/ Comes("failed") /\ UNCHANGED driverVars
       \/ /\ \E left \in Script : copies' = [copies EXCEPT !.system = left]
          /\ Reload /\ Comes("installed-for-everyone")
    /\ UNCHANGED <<loginVars, files, acts>>

\* removeDriverDevices(), which CoreMIDI may refuse for any of them, or be out of reach for.
RemoveDriverDevices ==
    \/ /\ listed' \in SUBSET listed
       /\ Comes(IF listed' = listed THEN "nothing-left" ELSE "removed")
    \/ UNCHANGED listed /\ Comes("removed-but-the-devices")

UninstallDevicesFirst ==
    /\ task.op = "uninstall"
    /\ \/ task.at = 1 /\ listed' = {} /\ GoesOn /\ UNCHANGED <<copies, server>>
       \/ /\ task.at = 2 /\ copies' = [s \in Scopes |-> "none"] /\ GoesOn
          /\ UNCHANGED <<server, listed>>
       \/ task.at = 3 /\ Reload /\ Comes("removed") /\ UNCHANGED copies
    /\ UNCHANGED <<loginVars, files, acts>>

\* uninstallDriver(): both copies, then the server, then the devices, if CoreMIDI can be reached.
Uninstall ==
    /\ task.op = "uninstall"
    /\ \/ /\ task.at = 1 /\ copies' = [copies EXCEPT !.user = "none"]
          /\ GoesOn /\ UNCHANGED <<server, listed>>
       \/ task.at = 1 /\ Comes("failed") /\ UNCHANGED driverVars
       \/ /\ task.at = 2
          /\ \/ copies' = [copies EXCEPT !.system = "none"] /\ GoesOn
             \/ "system" \in DriverScopes /\ Comes("failed") /\ UNCHANGED copies
          /\ UNCHANGED <<server, listed>>
       \/ task.at = 3 /\ Reload /\ GoesOn /\ UNCHANGED copies
       \/ task.at = 4 /\ RemoveDriverDevices /\ UNCHANGED <<copies, server>>
    /\ UNCHANGED <<loginVars, files, acts>>

AskDriver(op) ==
    /\ Asked /\ task' = Task(op) /\ told' = "nothing"
    /\ UNCHANGED <<driverVars, loginVars, files>>

\* Something asks for MIDI: the server starts, and Start() of a driver it finds lists the devices, if it can.
ServerStarts ==
    LET found == \E s \in Scopes : copies[s] = "whole"
    IN  /\ server = "off"
        /\ server' = IF found THEN "with" ELSE "without"
        /\ listed' \in (IF found THEN {listed, Published} ELSE {listed})
        /\ UNCHANGED <<copies, loginVars, task, told, files, acts>>
ServerIdles == server # "off" /\ Reload /\ UNCHANGED <<copies, loginVars, task, told, files, acts>>
-----------------------------------------------------------------------------
(* The login item.  A helper that answers says what the service came to;   *)
(* one that does not may have done it.                                     *)

StartsAtLogin == service = "on" \/ plist

\* loginItem(): the answers it may give and what it leaves behind.
LoginItem(verb) ==
    LET wanted == IF verb = "enable" THEN {"on", "approval"} ELSE {"off"}
    IN  {[answer |-> s, service |-> s] : s \in wanted}
        \cup {[answer |-> "none", service |-> s] : s \in wanted \cup {service}}

\* autostartState(); without an answer the file is looked for.
AutostartState(answers) == IF answers THEN service ELSE IF plist THEN "on" ELSE "off"

\* enableAutostart(): the service, or the file.
EnableAutostart ==
    \E r \in LoginItem("enable") :
        /\ service' = r.service
        /\ plist' \in IF r.answer = "none" THEN {TRUE, plist} ELSE {plist}

\* disableAutostart(): both, whatever the first answered.
DisableAutostart ==
    /\ \E r \in LoginItem("disable") : service' = r.service
    /\ plist' \in {FALSE, plist}

\* toggleAutostart()
Toggle ==
    /\ Asked /\ UNCHANGED task
    /\ \E answers, still \in BOOLEAN :
        LET off == AutostartState(answers) = "off"
            now == IF still THEN service' ELSE IF plist' THEN "on" ELSE "off"
        IN  /\ IF off THEN EnableAutostart ELSE DisableAutostart
            /\ told' = IF off /\ now # "off" THEN "on-at-login" ELSE "off-at-login"
    /\ UNCHANGED <<driverVars, marker, files>>

\* The user allows or forbids the item in System Settings.
Settings ==
    /\ Asked /\ service # "off"
    /\ service' \in {"on", "approval"} \ {service}
    /\ UNCHANGED <<driverVars, plist, marker, task, told, files>>

RunFirstLaunchAlways == marker' = TRUE /\ EnableAutostart

\* runFirstLaunch(): the marker is written first, if it can be; the item, of a bridge in a place that stays.
RunFirstLaunch ==
    \/ ~marker /\ marker' = TRUE /\ EnableAutostart
    \/ marker' \in {marker, TRUE} /\ UNCHANGED <<service, plist>>
Launch ==
    /\ Asked /\ UNCHANGED task
    /\ told' = "launched"
    /\ RunFirstLaunch
    /\ UNCHANGED <<driverVars, files>>
-----------------------------------------------------------------------------
(* The certificate.                                                        *)

Wanted(addresses) == {"localhost"} \cup addresses
CoversAnything(cached, needed) == cached # {}
Covers(cached, needed) == needed \subseteq cached
Cached(addresses) == NoFile \notin {files.cert, files.key} /\ Covers(files.names, Wanted(addresses))

\* ensureCertificate(): the files there are, or three new ones, one after the other.
EnsureCertificate(addresses) ==
    /\ Asked
    /\ IF Cached(addresses) THEN Comes("certified")
       ELSE task' = [op |-> "certify", at |-> 1, for |-> addresses] /\ told' = "nothing"
    /\ UNCHANGED <<driverVars, loginVars, files>>

WriteCertificate ==
    /\ task.op = "certify"
    /\ \/ task.at = 1 /\ files' = [files EXCEPT !.cert = acts, !.covers = Wanted(task.for)] /\ GoesOn
       \/ task.at = 2 /\ files' = [files EXCEPT !.key = acts] /\ GoesOn
       \/ task.at = 3 /\ files' = [files EXCEPT !.names = Wanted(task.for)] /\ Comes("certified")
    /\ UNCHANGED <<driverVars, loginVars, acts>>
-----------------------------------------------------------------------------
\* The bridge is stopped in the midst of something.
Crash == task # Idle /\ Comes("stopped") /\ UNCHANGED <<driverVars, loginVars, files, acts>>

Next ==
    \/ InstallUser \/ InstallSystem \/ Uninstall \/ ServerStarts \/ ServerIdles
    \/ \E op \in {"install", "install-everywhere", "uninstall"} : AskDriver(op)
    \/ Toggle \/ Settings \/ Launch
    \/ \E addresses \in SUBSET Addresses : EnsureCertificate(addresses)
    \/ WriteCertificate \/ Crash

Spec == Init /\ [][Next]_vars
=============================================================================
