----------------------------- MODULE TarUpload -----------------------------
(***************************************************************************)
(* The wsprdaemon.org transport (transports/wsprdaemon.py): ship or replay *)
(* puts the tar of a WSPR cycle on the first gateway that takes it over    *)
(* SFTP, as `put name.part' then `rename', one sftp process per gateway;   *)
(* when all refuse, ship (and never replay) puts it there over FTP.        *)
(*                                                                         *)
(* Outside the code: a gateway takes whatever stands under a final name.   *)
(* An sftp process that is cut off (the transfer timeout, a dead link)     *)
(* fails whatever it had done: that is a fault, and MaxFaults bounds them. *)
(* A gateway that refuses the connection, the login or the file changes    *)
(* nothing and is no fault.  A tar is the tar of its cycle; its layout and *)
(* compression are left out.  A tar is named after its cycle at ship and   *)
(* after the time at replay, so a replay meets no file of an earlier call. *)
(*                                                                         *)
(* The pump is the outline of module Pump that a call meets: cycles in     *)
(* order, a failed batch waits as a retry and holds the rest, a pump that  *)
(* dies loses the retry it took.                                           *)
(***************************************************************************)
EXTENDS Integers, Sequences, FiniteSets

CONSTANTS
  Servers,       \* the gateways, in the order they are tried
  LastCycle,     \* cycles 0 .. LastCycle are shipped
  Multiplex,     \* whether ssh connections persist (ControlMaster)
  Fallback,      \* whether an FTP fallback is configured
  MaxFaults      \* bound on cut transfers, new host keys and aborted pumps

Nowhere == "nowhere"
Gateways == {Servers[k] : k \in 1 .. Len(Servers)}

ASSUME TarAssumption ==
  /\ Len(Servers) \in Nat \ {0} /\ Nowhere \notin Gateways /\ LastCycle \in Nat
  /\ Multiplex \in BOOLEAN /\ Fallback \in BOOLEAN /\ MaxFaults \in Nat

VARIABLES
  record,      \* the last cycle acknowledged
  retry,       \* the cycle whose tar waits
  call,        \* the call under way
  part,        \* each gateway's name.part of each cycle's tar
  known,       \* known_hosts: no key, the gateway's key, an older one
  master,      \* the gateway behind each control socket
  taken,       \* history: the cycles whose whole tar a gateway took
  torn,        \* history: a rename (SFTP) published an incomplete tar
  faults       \* history: faults so far

pump == <<record, retry>>
gateways == <<part, taken, torn>>
vars == <<pump, call, gateways, known, master, faults>>

None == -1
Cycles == 0 .. LastCycle
NoCall == [step |-> "none", how |-> "ship", cycle |-> None,
           k |-> 1, fresh |-> FALSE, at |-> Nowhere]
Calls == [step : {"none", "connect", "hostkey", "put", "rename", "stor", "acked", "retry_later"},
          how : {"ship", "replay"}, cycle : Cycles \cup {None},
          k : 1 .. Len(Servers), fresh : BOOLEAN, at : Gateways \cup {Nowhere}]

TypeOK ==
  /\ record \in Cycles \cup {None} /\ retry \in Cycles \cup {None}
  /\ call \in Calls
  /\ part \in [Gateways -> [Cycles -> {"none", "torn", "whole"}]]
  /\ known \in [Gateways -> {"none", "own", "older"}]
  /\ master \in [Gateways -> Gateways \cup {Nowhere}]
  /\ taken \subseteq Cycles /\ torn \in BOOLEAN /\ faults \in 0 .. MaxFaults

Init ==
  /\ record = None /\ retry = None /\ call = NoCall
  /\ part = [s \in Gateways |-> [c \in Cycles |-> "none"]]
  /\ known = [s \in Gateways |-> "none"]
  /\ master = [s \in Gateways |-> Nowhere]
  /\ taken = {} /\ torn = FALSE /\ faults = 0

Fault == faults < MaxFaults /\ faults' = faults + 1
-----------------------------------------------------------------------------
(* The pump around the call *)

Ship ==
  /\ call = NoCall /\ retry = None /\ record < LastCycle
  /\ call' = [NoCall EXCEPT !.step = "connect", !.cycle = record + 1]
  /\ UNCHANGED <<pump, gateways, known, master, faults>>

Replay ==
  /\ call = NoCall /\ retry # None
  /\ call' = [NoCall EXCEPT !.step = "connect", !.how = "replay", !.cycle = retry]
  /\ retry' = None
  /\ UNCHANGED <<record, gateways, known, master, faults>>

Settle ==
  /\ call.step \in {"acked", "retry_later"}
  /\ IF call.step = "acked" THEN record' = call.cycle /\ UNCHANGED retry
                            ELSE retry' = call.cycle /\ UNCHANGED record
  /\ call' = NoCall
  /\ UNCHANGED <<gateways, known, master, faults>>

\* The process dies in a pump, at any step of the call.
Abort ==
  /\ call # NoCall /\ Fault /\ call' = NoCall
  /\ UNCHANGED <<pump, gateways, known, master>>
-----------------------------------------------------------------------------
(* ship and replay: one sftp process per gateway *)

Server == Servers[call.k]

\* _ssh_control_path: the socket's name holds the host (%h).
ControlPathShared(s) == Servers[1]
ControlPath(s) == s

\* _upload_tar: the next gateway, else (ship) the fallback, else retry_later.
NextServerPast ==
  call' = [call EXCEPT !.step = "connect", !.k = @ + 1, !.fresh = FALSE, !.at = Nowhere]
NextServer ==
  LET to(step, k) == call' = [call EXCEPT !.step = step, !.k = k, !.fresh = FALSE,
                                          !.at = Nowhere]
  IN CASE call.k < Len(Servers) ->
            to(IF call.step = "stor" THEN "stor" ELSE "connect", call.k + 1)
       [] call.k = Len(Servers) /\ Fallback /\ call.how = "ship" /\ call.step # "stor" ->
            to("stor", 1)
       [] OTHER -> to("retry_later", 1)

\* _run_sftp: a live master carries the session without a handshake; else the
\* key is compared, and a first one is kept (accept-new).
Multiplexed == Multiplex /\ ~call.fresh
Connect ==
  /\ call.step = "connect"
  /\ LET through == IF Multiplexed THEN master[ControlPath(Server)] ELSE Nowhere
     IN \/ /\ through # Nowhere
           /\ call' = [call EXCEPT !.step = "put", !.at = through]
           /\ UNCHANGED <<known, master>>
        \/ /\ through = Nowhere /\ known[Server] # "older"
           /\ call' = [call EXCEPT !.step = "put", !.at = Server]
           /\ known' = [known EXCEPT ![Server] = "own"]
           /\ master' = IF Multiplexed THEN [master EXCEPT ![ControlPath(Server)] = Server]
                                       ELSE master
        \/ /\ through = Nowhere /\ known[Server] = "older"
           /\ IF call.fresh THEN NextServer ELSE call' = [call EXCEPT !.step = "hostkey"]
           /\ UNCHANGED <<known, master>>
  /\ UNCHANGED <<pump, gateways, faults>>

\* _sftp_put: the stale key is cleared, the master ended, and one fresh
\* connection tried.
ClearedNot == known
Cleared == [known EXCEPT ![Server] = "none"]
HostKey ==
  /\ call.step = "hostkey"
  /\ known' = Cleared
  /\ master' = [master EXCEPT ![ControlPath(Server)] = Nowhere]
  /\ call' = [call EXCEPT !.step = "connect", !.fresh = TRUE]
  /\ UNCHANGED <<pump, gateways, faults>>

\* The gateway, or the network, refuses.
Refused ==
  /\ call.step \in {"connect", "put", "rename", "stor"}
  /\ NextServer
  /\ UNCHANGED <<pump, gateways, known, master, faults>>

\* A put that is cut leaves a part of the tar, and no rename runs after it.
AfterCutPutRenames == call' = [call EXCEPT !.step = "rename"]
AfterCutPut == NextServer
Written(state) ==
  part' = IF call.how = "ship" THEN [part EXCEPT ![call.at][call.cycle] = state] ELSE part
Put ==
  /\ call.step = "put"
  /\ \/ /\ Written("whole")
        /\ call' = [call EXCEPT !.step = "rename"]
        /\ UNCHANGED faults
     \/ Written("torn") /\ AfterCutPut /\ Fault
  /\ UNCHANGED <<pump, known, master, taken, torn>>

\* A gateway takes a whole tar.
Take == taken' = taken \cup {call.cycle}
Acked == call' = [call EXCEPT !.step = "acked"]

\* The tar takes its final name; a cut afterwards loses only the answer.
Rename ==
  /\ call.step = "rename"
  /\ IF call.how = "replay" \/ part[call.at][call.cycle] = "whole"
     THEN Take /\ UNCHANGED torn
     ELSE torn' = TRUE /\ UNCHANGED taken
  /\ Written("none")
  /\ \/ Acked /\ UNCHANGED faults
     \/ NextServer /\ Fault
  /\ UNCHANGED <<pump, known, master>>

\* WsprdaemonTarFtp._upload: straight to the final name, so a cut leaves a
\* piece there, or loses the answer.
Stor ==
  /\ call.step = "stor"
  /\ \/ Take /\ Acked /\ UNCHANGED faults
     \/ (Take \/ UNCHANGED taken) /\ NextServer /\ Fault
  /\ UNCHANGED <<pump, part, known, master, torn>>
-----------------------------------------------------------------------------
(* The gateways *)

\* A gateway is reinstalled: its connections end, its key is new.
NewHostKey ==
  /\ \E s \in Gateways :
       /\ known[s] = "own"
       /\ known' = [known EXCEPT ![s] = "older"]
       /\ master' = [m \in Gateways |-> IF master[m] = s THEN Nowhere ELSE master[m]]
  /\ call.step \notin {"put", "rename"} /\ Fault
  /\ UNCHANGED <<pump, call, gateways>>

\* ControlPersist ends an idle master.
MasterEnds ==
  /\ call.step \notin {"put", "rename"}
  /\ \E m \in Gateways : master[m] # Nowhere /\ master' = [master EXCEPT ![m] = Nowhere]
  /\ UNCHANGED <<pump, call, gateways, known, faults>>
-----------------------------------------------------------------------------
PumpStep == Ship \/ Replay \/ Settle
TarStep == Connect \/ HostKey \/ Refused \/ Put \/ Rename \/ Stor
Next == PumpStep \/ Abort \/ TarStep \/ NewHostKey \/ MasterEnds

\* The daemon pumps, each sftp or ftp process ends, and a gateway that is
\* asked again and again answers, takes a put and takes a rename.
Spec ==
  /\ Init /\ [][Next]_vars
  /\ WF_vars(PumpStep) /\ WF_vars(TarStep)
  /\ SF_vars(Connect) /\ SF_vars(Put) /\ SF_vars(Rename)
-----------------------------------------------------------------------------
(* Properties *)

\* What a gateway reads under a final name over SFTP is a whole tar, whatever
\* was cut before and whatever .part an earlier call of this sender left: that
\* is what .part and rename are for.  The FTP fallback has neither, stores
\* under the final name (Stor), and is not counted.
NoTornTar == ~torn

\* A transfer lands on the gateway being tried: the failover never carries
\* the tar to the gateway that just failed.
FailoverLands == call.at # Nowhere => call.at = Server

\* Every cycle reaches a gateway whole, through cut transfers, lost answers,
\* retries and dying pumps; a gateway with a changed host key
\* costs one connection and is not locked out.
EveryCycleLands == \A c \in Cycles : <>(c \in taken)
============================================================================
