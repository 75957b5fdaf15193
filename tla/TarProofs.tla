------------------------------ MODULE TarProofs ------------------------------
(***************************************************************************)
(* Proofs about module TarUpload, for every list of gateways, every number *)
(* of cycles and any number of faults.                                     *)
(*                                                                         *)
(* Neither NoTornTar nor FailoverLands is inductive.  A tar that is about  *)
(* to be renamed must be known to be whole (WholeBeforeRename), and what   *)
(* carries a call to its gateway is either a handshake with it or a master *)
(* socket, of which it must be known that it leads to its own gateway      *)
(* (MastersLeadHome).                                                      *)
(***************************************************************************)
EXTENDS TarUpload, TLAPS

\* A call under way has a cycle, and a transfer has a gateway.
CallOK ==
  /\ call # NoCall => call.cycle \in Cycles
  /\ call.step = "none" => call = NoCall
  /\ call.step \in {"put", "rename"} => call.at \in Gateways

MastersLeadHome == \A m \in Gateways : master[m] \in {m, Nowhere}

WholeBeforeRename ==
  call.step = "rename" /\ call.how = "ship" => part[call.at][call.cycle] = "whole"

IInv == TypeOK /\ CallOK /\ MastersLeadHome /\ FailoverLands /\ WholeBeforeRename /\ NoTornTar
-----------------------------------------------------------------------------
(* Facts about the operators *)

LEMMA ServerIsGateway ==
  ASSUME TypeOK
  PROVE  Server \in Gateways /\ Nowhere \notin Gateways
BY TarAssumption DEF TypeOK, Calls, Server, Gateways

\* A call that leaves a gateway goes on to another, to the fallback or to
\* its end, and has reached no gateway yet.
LeavesGateway ==
  \E step \in {"connect", "stor", "retry_later"}, k \in 1 .. Len(Servers) :
    call' = [call EXCEPT !.step = step, !.k = k, !.fresh = FALSE, !.at = Nowhere]

LEMMA NextServerLeaves ==
  ASSUME call \in Calls, NextServer
  PROVE  LeavesGateway
<1>1. call.k \in 1 .. Len(Servers) /\ Len(Servers) \in Nat \ {0}
  BY TarAssumption DEF Calls
<1>2. CASE call.k < Len(Servers)
  <2>1. call.k + 1 \in 1 .. Len(Servers)
    BY <1>1, <1>2
  <2>2. call' = [call EXCEPT !.step = IF call.step = "stor" THEN "stor" ELSE "connect",
                             !.k = call.k + 1, !.fresh = FALSE, !.at = Nowhere]
    BY <1>1, <1>2 DEF NextServer
  <2> QED  BY <2>1, <2>2 DEF LeavesGateway
<1>3. CASE call.k = Len(Servers) /\ Fallback /\ call.how = "ship" /\ call.step # "stor"
  <2>1. call' = [call EXCEPT !.step = "stor", !.k = 1, !.fresh = FALSE, !.at = Nowhere]
    BY <1>1, <1>3 DEF NextServer
  <2>2. 1 \in 1 .. Len(Servers)
    BY <1>1
  <2> QED  BY <2>1, <2>2, Zenon DEF LeavesGateway
<1>4. CASE ~(call.k < Len(Servers))
           /\ ~(call.k = Len(Servers) /\ Fallback /\ call.how = "ship" /\ call.step # "stor")
  <2>1. call' = [call EXCEPT !.step = "retry_later", !.k = 1, !.fresh = FALSE,
                             !.at = Nowhere]
    BY <1>1, <1>4 DEF NextServer
  <2>2. 1 \in 1 .. Len(Servers)
    BY <1>1
  <2> QED  BY <2>1, <2>2, Zenon DEF LeavesGateway
<1> QED  BY <1>2, <1>3, <1>4

LEMMA NextServerOK ==
  ASSUME TypeOK, CallOK, NextServer, call # NoCall
  PROVE  /\ call' \in Calls /\ CallOK'
         /\ call'.at = Nowhere /\ call'.step \in {"connect", "stor", "retry_later"}
<1>1. call \in Calls /\ call.cycle \in Cycles
  BY DEF TypeOK, CallOK
<1>2. PICK step \in {"connect", "stor", "retry_later"}, k \in 1 .. Len(Servers) :
        call' = [call EXCEPT !.step = step, !.k = k, !.fresh = FALSE, !.at = Nowhere]
  BY <1>1, NextServerLeaves DEF LeavesGateway
<1> QED  BY <1>1, <1>2 DEF CallOK, Calls, NoCall
-----------------------------------------------------------------------------
(* The invariant *)

LEMMA InitInv == Init => IInv
<1> SUFFICES ASSUME Init
             PROVE  IInv
  OBVIOUS
<1>1. NoCall \in Calls
  BY TarAssumption DEF NoCall, Calls
<1>2. /\ part \in [Gateways -> [Cycles -> {"none", "torn", "whole"}]]
      /\ known \in [Gateways -> {"none", "own", "older"}]
      /\ master \in [Gateways -> Gateways \cup {Nowhere}]
  BY DEF Init
<1>3. faults \in 0 .. MaxFaults
  BY TarAssumption DEF Init
<1>4. TypeOK
  BY <1>1, <1>2, <1>3 DEF Init, TypeOK
<1> QED
  BY <1>4 DEF Init, IInv, CallOK, MastersLeadHome, FailoverLands, WholeBeforeRename,
              NoTornTar, NoCall

\* The pump around the call.
LEMMA PumpInv ==
  ASSUME IInv, Ship \/ Replay \/ Settle \/ Abort
  PROVE  IInv'
<1> USE TarAssumption DEF IInv, TypeOK, CallOK, MastersLeadHome, FailoverLands,
        WholeBeforeRename, NoTornTar, NoCall, Calls, Cycles, None, gateways, pump
<1>1. CASE Ship
  <2>1. record + 1 \in Cycles
    BY <1>1 DEF Ship
  <2> QED  BY <1>1, <2>1 DEF Ship
<1>2. CASE Replay
  BY <1>2 DEF Replay
<1>3. CASE Settle
  BY <1>3 DEF Settle
<1>4. CASE Abort
  BY <1>4 DEF Abort, Fault
<1> QED  BY <1>1, <1>2, <1>3, <1>4

\* A session reaches the gateway being tried, through its master or its key.
LEMMA ConnectInv ==
  ASSUME IInv, Connect
  PROVE  IInv'
<1>1. /\ TypeOK /\ CallOK /\ MastersLeadHome /\ NoTornTar
      /\ call.step = "connect" /\ call \in Calls
      /\ UNCHANGED <<pump, gateways, faults>>
  BY DEF IInv, TypeOK, Connect
<1>2. Server \in Gateways /\ Nowhere \notin Gateways
  BY <1>1, ServerIsGateway
<1>3. \/ /\ call' = [call EXCEPT !.step = "put", !.at = Server]
         /\ \/ UNCHANGED <<known, master>>
            \/ /\ known' = [known EXCEPT ![Server] = "own"]
               /\ master' = master \/ master' = [master EXCEPT ![Server] = Server]
      \/ NextServer /\ UNCHANGED <<known, master>>
      \/ call' = [call EXCEPT !.step = "hostkey"] /\ UNCHANGED <<known, master>>
  BY <1>1, <1>2 DEF Connect, ControlPath, MastersLeadHome
<1>4. CASE call' = [call EXCEPT !.step = "put", !.at = Server]
  <2>1. call.cycle \in Cycles
    BY <1>1 DEF CallOK, NoCall
  <2>3. call' \in Calls /\ CallOK' /\ FailoverLands' /\ WholeBeforeRename'
    BY <1>1, <1>2, <1>4, <2>1 DEF Calls, CallOK, FailoverLands, WholeBeforeRename, Server, NoCall
  <2>2. /\ known' \in [Gateways -> {"none", "own", "older"}]
        /\ master' \in [Gateways -> Gateways \cup {Nowhere}] /\ MastersLeadHome'
    <3>1. \/ UNCHANGED <<known, master>>
          \/ /\ known' = [known EXCEPT ![Server] = "own"]
             /\ master' = master \/ master' = [master EXCEPT ![Server] = Server]
      BY <1>3
    <3>2. /\ known \in [Gateways -> {"none", "own", "older"}]
          /\ master \in [Gateways -> Gateways \cup {Nowhere}]
      BY <1>1 DEF TypeOK
    <3> QED  BY <1>1, <1>2, <3>1, <3>2 DEF MastersLeadHome
  <2> QED  BY <1>1, <2>2, <2>3 DEF IInv, TypeOK, NoTornTar, pump, gateways
<1>5. CASE NextServer /\ UNCHANGED <<known, master>>
  <2>1. call' \in Calls /\ CallOK' /\ call'.at = Nowhere /\ call'.step # "rename"
    BY <1>1, <1>5, NextServerOK DEF NoCall
  <2> QED
    BY <1>1, <1>5, <2>1
       DEF IInv, TypeOK, MastersLeadHome, FailoverLands, WholeBeforeRename, NoTornTar, pump,
           gateways
<1>6. CASE call' = [call EXCEPT !.step = "hostkey"] /\ UNCHANGED <<known, master>>
  <2>1. call' \in Calls /\ CallOK' /\ FailoverLands' /\ call'.step # "rename"
    BY <1>1, <1>6 DEF Calls, CallOK, FailoverLands, Server, NoCall, IInv
  <2> QED
    BY <1>1, <1>6, <2>1
       DEF IInv, TypeOK, MastersLeadHome, WholeBeforeRename, NoTornTar, pump, gateways
<1> QED  BY <1>3, <1>4, <1>5, <1>6

\* The host key is cleared and the connection starts afresh, or the gateway
\* refuses.
LEMMA HostKeyInv ==
  ASSUME IInv, HostKey
  PROVE  IInv'
<1>1. Server \in Gateways
  BY ServerIsGateway DEF IInv
<1>4. /\ call \in Calls /\ call.step = "hostkey" /\ call.cycle \in Cycles
      /\ FailoverLands
      /\ call' = [call EXCEPT !.step = "connect", !.fresh = TRUE]
  BY DEF IInv, TypeOK, CallOK, HostKey, NoCall
<1>2. call' \in Calls /\ CallOK' /\ FailoverLands' /\ WholeBeforeRename'
  BY <1>4 DEF Calls, CallOK, FailoverLands, WholeBeforeRename, Server, NoCall
<1>3. /\ known' \in [Gateways -> {"none", "own", "older"}]
      /\ master' \in [Gateways -> Gateways \cup {Nowhere}] /\ MastersLeadHome'
  BY <1>1 DEF IInv, TypeOK, HostKey, Cleared, ControlPath, MastersLeadHome
<1> QED  BY <1>2, <1>3 DEF IInv, TypeOK, HostKey, NoTornTar, pump, gateways

LEMMA RefusedInv ==
  ASSUME IInv, Refused
  PROVE  IInv'
<1>1. call' \in Calls /\ CallOK' /\ call'.at = Nowhere /\ call'.step # "rename"
  BY NextServerOK DEF Refused, IInv, NoCall
<1> QED
  BY <1>1 DEF Refused, IInv, TypeOK, MastersLeadHome, FailoverLands, WholeBeforeRename,
              NoTornTar, pump, gateways

\* Only a put that ended lets the rename run; a cut one goes to the next
\* gateway.
LEMMA PutInv ==
  ASSUME IInv, Put
  PROVE  IInv'
<1>1. /\ TypeOK /\ call \in Calls /\ call.step = "put" /\ call.at \in Gateways
      /\ call.cycle \in Cycles /\ FailoverLands
      /\ UNCHANGED <<pump, known, master, taken, torn>>
  BY DEF IInv, TypeOK, CallOK, Put, NoCall
<1>2. CASE /\ Written("whole") /\ call' = [call EXCEPT !.step = "rename"]
           /\ UNCHANGED faults
  <2>1. call' \in Calls /\ CallOK' /\ FailoverLands'
    BY <1>1, <1>2 DEF Calls, CallOK, FailoverLands, Server, NoCall
  <2>2. /\ part' \in [Gateways -> [Cycles -> {"none", "torn", "whole"}]]
        /\ WholeBeforeRename'
    BY <1>1, <1>2 DEF TypeOK, Written, WholeBeforeRename, Calls
  <2> QED
    BY <1>1, <1>2, <2>1, <2>2 DEF IInv, TypeOK, MastersLeadHome, NoTornTar, pump
<1>3. CASE Written("torn") /\ AfterCutPut /\ Fault
  <2>1. call' \in Calls /\ CallOK' /\ call'.at = Nowhere /\ call'.step # "rename"
    BY <1>1, <1>3, NextServerOK DEF AfterCutPut, IInv, NoCall
  <2>2. part' \in [Gateways -> [Cycles -> {"none", "torn", "whole"}]]
    BY <1>1, <1>3 DEF TypeOK, Written
  <2>3. faults' \in 0 .. MaxFaults
    BY <1>1, <1>3, TarAssumption DEF TypeOK, Fault
  <2> QED
    BY <1>1, <2>1, <2>2, <2>3
       DEF IInv, TypeOK, MastersLeadHome, FailoverLands, WholeBeforeRename, NoTornTar, pump
<1> QED  BY <1>2, <1>3 DEF Put

\* A rename publishes the tar its own put made whole.
LEMMA RenameInv ==
  ASSUME IInv, Rename
  PROVE  IInv'
<1>1. /\ TypeOK /\ call \in Calls /\ call.step = "rename" /\ call.at \in Gateways
      /\ call.cycle \in Cycles /\ FailoverLands /\ NoTornTar
      /\ UNCHANGED <<pump, known, master>>
  BY DEF IInv, TypeOK, CallOK, Rename, NoCall
<1>2. call.how = "replay" \/ part[call.at][call.cycle] = "whole"
  BY <1>1 DEF IInv, WholeBeforeRename, Calls
<1>3. taken' = taken \cup {call.cycle} /\ UNCHANGED torn
  BY <1>2 DEF Rename, Take
<1>4. part' \in [Gateways -> [Cycles -> {"none", "torn", "whole"}]]
  BY <1>1 DEF TypeOK, Rename, Written
<1>5. CASE Acked /\ UNCHANGED faults
  <2>1. call' \in Calls /\ CallOK' /\ FailoverLands' /\ call'.step # "rename"
    BY <1>1, <1>5 DEF Acked, Calls, CallOK, FailoverLands, Server, NoCall
  <2> QED
    BY <1>1, <1>3, <1>4, <1>5, <2>1
       DEF IInv, TypeOK, MastersLeadHome, WholeBeforeRename, NoTornTar, pump
<1>6. CASE NextServer /\ Fault
  <2>2. call' \in Calls /\ CallOK' /\ call'.at = Nowhere /\ call'.step # "rename"
    BY <1>1, <1>6, NextServerOK DEF IInv, NoCall
  <2>3. faults' \in 0 .. MaxFaults
    BY <1>1, <1>6, TarAssumption DEF TypeOK, Fault
  <2> QED
    BY <1>1, <1>3, <1>4, <2>2, <2>3
       DEF IInv, TypeOK, MastersLeadHome, FailoverLands, WholeBeforeRename, NoTornTar, pump
<1> QED  BY <1>5, <1>6 DEF Rename

\* The fallback writes no .part and uses no ssh connection.
LEMMA StorInv ==
  ASSUME IInv, Stor
  PROVE  IInv'
<1>1. /\ TypeOK /\ call \in Calls /\ call.step = "stor" /\ call.cycle \in Cycles
      /\ UNCHANGED <<pump, part, known, master, torn>>
  BY DEF IInv, TypeOK, CallOK, Stor, NoCall
<1>2. taken' \subseteq Cycles /\ faults' \in 0 .. MaxFaults
  BY <1>1, TarAssumption DEF Stor, Take, TypeOK, Fault
<1>3. call' \in Calls /\ CallOK' /\ FailoverLands' /\ call'.step # "rename"
  <2>1. CASE Acked
    BY <1>1, <2>1 DEF IInv, Acked, Calls, CallOK, FailoverLands, Server, NoCall
  <2>2. CASE NextServer
    <3>1. call # NoCall
      BY <1>1 DEF NoCall
    <3> QED  BY <1>1, <2>2, <3>1, NextServerOK DEF IInv, FailoverLands
  <2> QED  BY <2>1, <2>2 DEF Stor
<1> QED
  BY <1>1, <1>2, <1>3
     DEF IInv, TypeOK, MastersLeadHome, WholeBeforeRename, NoTornTar, pump

\* A reinstalled gateway, or an idle connection that ends, only removes masters.
LEMMA GatewayInv ==
  ASSUME IInv, NewHostKey \/ MasterEnds
  PROVE  IInv'
<1>1. /\ known' \in [Gateways -> {"none", "own", "older"}]
      /\ master' \in [Gateways -> Gateways \cup {Nowhere}] /\ MastersLeadHome'
  BY DEF IInv, TypeOK, NewHostKey, MasterEnds, MastersLeadHome
<1>2. faults' \in 0 .. MaxFaults /\ UNCHANGED <<pump, call, gateways>>
  BY TarAssumption DEF IInv, TypeOK, NewHostKey, MasterEnds, Fault
<1> QED
  BY <1>1, <1>2 DEF IInv, TypeOK, CallOK, FailoverLands, WholeBeforeRename, NoTornTar, pump,
                    gateways, Server
-----------------------------------------------------------------------------
THEOREM Invariance == Spec => []IInv
<1>1. IInv /\ [Next]_vars => IInv'
  <2> SUFFICES ASSUME IInv, [Next]_vars
               PROVE  IInv'
    OBVIOUS
  <2>1. CASE UNCHANGED vars
    BY <2>1 DEF vars, pump, gateways, IInv, TypeOK, CallOK, MastersLeadHome, FailoverLands,
                WholeBeforeRename, NoTornTar, Server
  <2> QED
    BY <2>1, PumpInv, ConnectInv, HostKeyInv, RefusedInv, PutInv, RenameInv, StorInv,
       GatewayInv
       DEF Next, PumpStep, TarStep
<1> QED  BY <1>1, InitInv, PTL DEF Spec

\* The state keeps its type, whatever the gateways do.
THEOREM TypeCorrect == Spec => []TypeOK
BY Invariance, PTL DEF IInv

\* Of what SFTP puts there, a gateway reads whole tars only under a final name,
\* however often transfers are cut and calls repeated.  It says nothing of the
\* FTP fallback, which writes a tar piece by piece under its final name.
THEOREM TarsAreWhole == Spec => []NoTornTar
BY Invariance, PTL DEF IInv

\* The tar of a failover goes to the gateway the transport turned to.
THEOREM FailoverIsReal == Spec => []FailoverLands
BY Invariance, PTL DEF IInv
=============================================================================
