------------------------------ MODULE SetupProps -----------------------------
(***************************************************************************)
(* What the machine is left with, and what the user was told of it.        *)
(***************************************************************************)
EXTENDS Setup

VARIABLES
    refused,    \* CoreMIDI would not remove a device
    choice,     \* what the user was last told of the login item
    lapsed,     \* when it was, an item stayed all the same, or the first launch had not been recorded
    asks,       \* the names that a certificate was last asked for
    torn        \* the certificate's files were being written at a crash
historyVars == <<refused, choice, lapsed, asks, torn>>
propsVars == <<vars, historyVars>>

PropsInit == Init /\ refused = FALSE /\ choice = "nothing" /\ lapsed = FALSE /\ asks = {} /\ torn = FALSE

Toggled == choice' = told' /\ lapsed' = (~marker \/ service' # "off" \/ plist')
PropsNext ==
    \/ InstallUser /\ UNCHANGED historyVars
    \/ InstallSystem /\ UNCHANGED historyVars
    \/ Uninstall /\ refused' = (task.at = 4 /\ listed' # {}) /\ UNCHANGED <<choice, lapsed, asks, torn>>
    \/ (ServerStarts \/ ServerIdles) /\ UNCHANGED historyVars
    \/ \E op \in {"install", "install-everywhere", "uninstall"} : AskDriver(op) /\ UNCHANGED historyVars
    \/ Toggle /\ Toggled /\ UNCHANGED <<refused, asks, torn>>
    \/ (Settings \/ Launch) /\ UNCHANGED historyVars
    \/ \E addresses \in SUBSET Addresses :
        EnsureCertificate(addresses) /\ asks' = Wanted(addresses) /\ UNCHANGED <<refused, choice, lapsed, torn>>
    \/ WriteCertificate /\ UNCHANGED historyVars
    \/ Crash /\ torn' = (torn \/ task.op = "certify") /\ UNCHANGED <<refused, choice, lapsed, asks>>

PropsSpec == PropsInit /\ [][PropsNext]_propsVars

\* A driver that was reported removed stays away, with its devices, whenever MIDIServer starts and whatever
\* copies there were, if CoreMIDI removed the devices it was asked to (driverInstall.ts, uninstallDriver;
\* coreMidiIdentity.ts, removeDriverDevices).
Removed == told \in {"removed", "nothing-left"}
RemovedIsGone == Removed /\ ~refused => listed = {} /\ \A s \in Scopes : copies[s] = "none"

\* What a user switched off, and what was off then, is never switched on by a later launch, however often the
\* bridge is started and whatever the system says of the item meanwhile (firstRun.ts, the marker).
OffStaysOff == choice = "off-at-login" /\ ~lapsed => ~StartsAtLogin

\* The certificate that is used has its own key and names every address that was asked for, if no run of the
\* bridge ended while it wrote the files (certificate.ts, ensureCertificate).
CertificateFits == told = "certified" /\ ~torn => files.cert = files.key /\ asks \subseteq files.covers
-----------------------------------------------------------------------------
(* What comments say of this and the code does not do.                     *)

\* driverInstall.ts:373-374, "no device of ours was left in the MIDI setup".
NothingWasLeft == told = "nothing-left" => listed = {}

\* driverInstall.ts:166-167, "`|| true` because `xattr -d` fails when the attribute is not there".
InstalledIsThere == told = "installed-for-everyone" => copies.system = "whole"

\* autostart.ts:216-218, "leaving either behind is a login item the user has just switched off still starting".
OffMeansOff == choice = "off-at-login" => ~StartsAtLogin

\* certificate.ts:58-60: the files are one certificate's.
KeyFits == told = "certified" => files.cert = files.key
=============================================================================
