-------------------------- MODULE PrivateSendProbe --------------------------
(***************************************************************************)
(* private_send_probe: a whole private send over a tree with one note that *)
(* nobody mined.  private_send.rs hands the engine a syncer that delivers  *)
(* one shield made for the probe, and everything after it is the engine's  *)
(* own: it must read the note, select it and prove a transfer out of it.   *)
(* The chain is asked at the end about the root the proof was built over.  *)
(***************************************************************************)
EXTENDS ProbeProcess

CONSTANT Amounts   \* bound: what a caller may ask to shield and to transfer

ASSUME AmountsAssumption == Amounts \subseteq Nat

SendProbe == "private_send_probe"

\* One block and one shield in it, delivered to whoever asks for that block.
SHIELD_BLOCK == 1
OneShield(from, to) ==
  IF from <= SHIELD_BLOCK /\ SHIELD_BLOCK <= to THEN {"shield"} ELSE {}

\* The engine starts at the block after the one it has, and a fresh one has
\* none; it goes to the syncer's latest block.
FirstSync == OneShield(0 + 1, SHIELD_BLOCK)

(***************************************************************************)
(* The fields of a run: what was asked, whether the engine read the note   *)
(* (not in the code), the balance it reported, how many passes it proved   *)
(* (not in the code), whether a root is known to ask about, and the        *)
(* chain's answer.                                                         *)
(***************************************************************************)
Send(shield, transfer, repeat) ==
  [shield |-> shield, transfer |-> transfer, repeat |-> repeat, read |-> FALSE,
   balance |-> None, proved |-> 0, root |-> FALSE, on_chain |-> None]

Passes(repeat) ==
  IF repeat THEN <<"transfer-cold", "transfer-warm">> ELSE <<"transfer-cold">>

-----------------------------------------------------------------------------
SendEnters(stage) == at' = stage /\ line' = Entering(None, stage)

\* The stage under way is over, its leg is `ok`, and `stage` is entered.
SendGoesOn(stage) ==
  /\ legs' = Append(legs, Leg(at, TRUE))
  /\ SendEnters(stage)
  /\ UNCHANGED <<build, process, call, printed, measured, reply>>

\* The run is over with its legs as `ls`: stamped, printed and answered.
SendEnds(ls) ==
  /\ legs' = ls
  /\ Return(SendProbe, AllGreen(ls))
  /\ UNCHANGED <<build, process, console, measured>>

\* A bug: the run that failed answers without the leg it failed at.
FailsUnsaid == SendEnds(legs)

\* The leg under way fails, and with it the run.
SendFails == SendEnds(Append(legs, Leg(at, FALSE)))

\* An unsupported chain, or a transfer above the shield, is answered at once.
CallSendProbe(shield, transfer, repeat) ==
  /\ transfer <= shield
  /\ Begin(SendProbe, "keys")
  /\ line' = Entering(None, "keys")
  /\ asked' = <<>> /\ probe' = None
  /\ noted' = Send(shield, transfer, repeat)

DeriveKeys ==
  /\ Within(SendProbe, "keys")
  /\ SendGoesOn("shield") \/ SendFails
  /\ UNCHANGED noted

\* Only a build with the seam can encrypt a shield.
EncryptShield ==
  /\ Within(SendProbe, "shield")
  /\ (image.seam /\ SendGoesOn("engine")) \/ SendFails
  /\ UNCHANGED noted

\* The engine is built over a memory database and the signer registered.
BuildSender ==
  /\ Within(SendProbe, "engine")
  /\ SendGoesOn("sync") \/ SendFails
  /\ UNCHANGED noted

\* The engine may insert the leaf and not be able to read the note.
SyncSender ==
  /\ Within(SendProbe, "sync")
  /\ \/ /\ \E read \in BOOLEAN :
             /\ read => FirstSync # {}
             /\ noted' = [noted EXCEPT !.read = read]
        /\ SendGoesOn("balance")
     \/ SendFails /\ UNCHANGED noted

Balance == IF noted.read THEN noted.shield ELSE 0

\* A bug: any balance will do for a transfer.
TrustBalance ==
  /\ Within(SendProbe, "balance")
  /\ noted' = [noted EXCEPT !.balance = Balance]
  /\ SendGoesOn(Passes(noted.repeat)[1])

\* A note the engine did not read ends the run here, and not in the transfer.
CheckBalance ==
  /\ Within(SendProbe, "balance")
  /\ noted' = [noted EXCEPT !.balance = Balance]
  /\ \/ Balance = noted.shield /\ SendGoesOn(Passes(noted.repeat)[1])
     \/ Balance # noted.shield /\ SendFails

\* A pass is proved and verified; the first proof with an operation gives the
\* root to ask about.  After the last pass the run asks, or is over.
ProveTransfer ==
  \E pass \in 1..Len(Passes(noted.repeat)), operation \in BOOLEAN :
    LET root == noted.root \/ operation IN
    /\ at = Passes(noted.repeat)[pass]
    /\ noted' = [noted EXCEPT !.proved = @ + 1, !.root = root]
    /\ \/ /\ pass < Len(Passes(noted.repeat))
          /\ SendGoesOn(Passes(noted.repeat)[pass + 1])
       \/ /\ pass = Len(Passes(noted.repeat)) /\ root
          /\ SendGoesOn("root-on-chain")
       \/ /\ pass = Len(Passes(noted.repeat)) /\ ~root
          /\ SendEnds(Append(legs, Leg(at, TRUE)))

Transfer ==
  /\ process = "up" /\ call = SendProbe
  /\ at \in {"transfer-cold", "transfer-warm"}
  /\ ProveTransfer \/ (SendFails /\ UNCHANGED noted)

\* What the chain said, or that it did not say; the run is over either way.
AskRoot ==
  /\ Within(SendProbe, "root-on-chain")
  /\ \/ /\ \E seen \in BOOLEAN : noted' = [noted EXCEPT !.on_chain = seen]
        /\ SendEnds(Append(legs, Leg(at, TRUE)))
     \/ SendFails /\ UNCHANGED noted

SendProbeStep ==
  \/ DeriveKeys \/ EncryptShield \/ BuildSender \/ SyncSender \/ CheckBalance
  \/ Transfer \/ AskRoot
=============================================================================
