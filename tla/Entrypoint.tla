----------------------------- MODULE Entrypoint -----------------------------
(***************************************************************************)
(* The script in a Job's container: entrypoint.sh and the upload_to_*.sh   *)
(* it ends with.  bash runs without -e, so a failed command ends nothing   *)
(* but a branch that asks for it; the exit status of the script is that of *)
(* its last command.  What the commands do (sosreport, mv,                 *)
(* redhat-support-tool, mount, cp, umount, lftp) is external: each may     *)
(* fail.                                                                   *)
(***************************************************************************)
CONSTANT NoContainer

VARIABLES
    who,        \* the container: its Job, and which attempt of it this is
    line,       \* the command to be run next
    tmp,        \* sosreport has left an archive, not moved yet
    file,       \* $sosreport_file on the PV: "none", "partial" or "whole"
    status,     \* exit status
    sent        \* an archive was uploaded

scriptVars == <<who, line, tmp, file, status, sent>>

Empty == ""

(* A variable that is not set is as good as empty.                         *)
Var(k) == IF k \in DOMAIN who.job.env THEN who.job.env[k] ELSE Empty

ScriptInit ==
    /\ who = NoContainer
    /\ line = "none" /\ tmp = FALSE /\ file = "none" /\ sent = FALSE
    /\ status = 0

Exit(code) == line' = "exit" /\ status' = code

Goto(next) == line' = next /\ UNCHANGED status

-----------------------------------------------------------------------------
(* Its status is that of tee.                                              *)
Sosreport ==
    /\ line = "sosreport"
    /\ tmp' \in BOOLEAN
    /\ Goto("mv")
    /\ UNCHANGED <<who, file, sent>>

(* The PV may be full; without an archive there is nothing to move.  What  *)
(* is left of it elsewhere is of no use to anybody.                        *)
Mv ==
    /\ line = "mv"
    /\ file' \in IF tmp THEN {"none", "partial", "whole"} ELSE {"none"}
    /\ tmp' = FALSE
    /\ Goto("if")
    /\ UNCHANGED <<who, sent>>

NoUpload ==
    /\ line = "if" /\ Var("upload-method") \notin {"case", "nfs", "ftp"}
    /\ Exit(0)
    /\ UNCHANGED <<who, tmp, file, sent>>

(* upload_to_case.sh: without a case number it exits, without credentials  *)
(* it exits with an error.                                                 *)
Case ==
    /\ line = "if" /\ Var("upload-method") = "case"
    /\ IF Var("case-number") = Empty THEN Exit(0)
       ELSE IF Var("username") = Empty \/ Var("password") = Empty THEN Exit(1)
       ELSE Goto("attach")
    /\ UNCHANGED <<who, tmp, file, sent>>

Nfs ==
    /\ line = "if" /\ Var("upload-method") = "nfs"
    /\ IF Var("nfs-share") = Empty THEN Exit(1) ELSE Goto("mount")
    /\ UNCHANGED <<who, tmp, file, sent>>

Ftp ==
    /\ line = "if" /\ Var("upload-method") = "ftp"
    /\ IF Var("ftp-server") = Empty THEN Exit(1) ELSE Goto("lftp")
    /\ UNCHANGED <<who, tmp, file, sent>>

(* What is on the PV is sent, be it the whole archive or not.              *)
Send == file # "none" /\ sent' = TRUE

(* redhat-support-tool addattachment; its status is hidden by rm -f.       *)
Attach ==
    /\ line = "attach"
    /\ Send \/ UNCHANGED sent
    /\ Exit(0)
    /\ UNCHANGED <<who, tmp, file>>

(* The status of mount is not looked at, but the list of mounts is.        *)
Mount ==
    /\ line = "mount"
    /\ Exit(1) \/ Goto("cp")
    /\ UNCHANGED <<who, tmp, file, sent>>

Cp ==
    /\ line = "cp"
    /\ Send \/ UNCHANGED sent
    /\ Goto("umount")
    /\ UNCHANGED <<who, tmp, file>>

Umount ==
    /\ line = "umount"
    /\ \E code \in {0, 1} : Exit(code)
    /\ UNCHANGED <<who, tmp, file, sent>>

(* An echo after lftp would hide its status, too.                          *)
Lftp_StatusHidden ==
    /\ line = "lftp"
    /\ Send \/ UNCHANGED sent
    /\ Exit(0)
    /\ UNCHANGED <<who, tmp, file>>

Lftp ==
    /\ line = "lftp"
    /\ \/ Send /\ Exit(0)
       \/ Exit(1) /\ UNCHANGED sent
    /\ UNCHANGED <<who, tmp, file>>

Script ==
    \/ Sosreport \/ Mv
    \/ NoUpload \/ Case \/ Nfs \/ Ftp
    \/ Attach \/ Mount \/ Cp \/ Umount \/ Lftp

=============================================================================
