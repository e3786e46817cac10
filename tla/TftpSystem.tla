----------------------------- MODULE TftpSystem -----------------------------
(* The bootloader's TFTP server and the runs of mstd.cfg.py that use it.     *)
EXTENDS TftpServer, TftpClient, FiniteSets

CONSTANTS
    Sequential,  \* whether a user starts a run only when the last one is over
    Patience,    \* client timeouts (SOCK_TOUT, 5 s) that are over before the
                 \* server's (30 s)
    MayKill,     \* whether a user stops runs
    MaxEarly,    \* bound: client timeouts while an answer is on its way
    MaxRuns,     \* bound: runs started
    MaxTroubles  \* bound: losses, failures and early timeouts together

ASSUME SystemAssumption ==
    /\ Sequential \in BOOLEAN /\ MayKill \in BOOLEAN /\ Patience \in Nat \ {0}
    /\ MaxEarly \in Nat /\ MaxRuns \in Nat /\ MaxTroubles \in Nat

VARIABLES
    early,     \* such timeouts so far
    waited,    \* [Client -> its timeouts since the server last began to wait,
               \* up to Patience], which is Patience if its run began since then
    hurried    \* history: whether the last of runs one after another began before
               \* the server was back

vars == <<netVars, serverVars, clientVars, early, waited, hurried>>

Init ==
    /\ NetInit /\ ServerInit /\ ClientInit /\ early = 0
    /\ waited = [c \in Client |-> 0] /\ hurried = FALSE

(* Nothing is on its way to the server, and it waits; or it does not listen. *)
ServerWaits == toServer = <<>> /\ spc \in {"run", "write", "ack"}
ServerDeaf == ~bound \/ spc \in {"hung", "reboot"}

Troubles == drops + faults + early

(* A user who has stopped a run, or seen it end, need not wait until the     *)
(* server is back before starting the next.                                  *)
ServerBack == spc = "run" /\ toServer = <<>>

StartRun(c) ==
    /\ Sequential => \A d \in Client : cst[d] # "wait"
    /\ Cardinality({d \in Client : cst[d] # "idle"}) < MaxRuns
    /\ Start(c)
    /\ hurried' = (Sequential /\ ~ServerBack)
    /\ waited' = [waited EXCEPT ![c] = Patience]
    /\ UNCHANGED <<serverVars, early>>

ClientTimeout(c) ==
    /\ Timeout(c)
    /\ IF ServerWaits \/ ServerDeaf THEN UNCHANGED early
       ELSE early < MaxEarly /\ Troubles < MaxTroubles /\ early' = early + 1
    /\ waited' = [waited EXCEPT ![c] = IF @ < Patience THEN @ + 1 ELSE @]
    /\ UNCHANGED <<serverVars, hurried>>

(* Every step of the server ends in a wait that begins anew.                 *)
ServerGoesOn ==
    /\ waited' = [c \in Client |-> 0]
    /\ UNCHANGED <<clientVars, early, hurried>> /\ Troubles' <= MaxTroubles

ServerRuns == ServerStep /\ ServerGoesOn

(* Its timeout falls only after those that a client still waiting had first. *)
LateServer ==
    /\ ServerTimeout /\ ServerGoesOn
    /\ \A c \in Client : cst[c] = "wait" => waited[c] = Patience

PowerFails == Troubles < MaxTroubles /\ PowerCycle /\ ServerGoesOn

ClientRuns(c) == ClientStep(c) /\ UNCHANGED <<serverVars, early, waited, hurried>>
Lose ==
    /\ Troubles < MaxTroubles /\ Drop
    /\ UNCHANGED <<serverVars, clientVars, early, waited, hurried>>
Stop(c) == MayKill /\ Kill(c) /\ UNCHANGED <<serverVars, early, waited, hurried>>

Next ==
    \/ ServerRuns \/ LateServer \/ PowerFails \/ Lose
    \/ \E c \in Client :
         StartRun(c) \/ ClientRuns(c) \/ ClientTimeout(c) \/ Stop(c)

(* The server's task and a client that waits always go on; nothing forces a  *)
(* user to start or stop a run, the network to lose anything or the power to *)
(* fail.                                                                     *)
Fairness ==
    /\ WF_vars(ServerRuns) /\ WF_vars(LateServer)
    /\ \A c \in Client : WF_vars(ClientRuns(c)) /\ WF_vars(ClientTimeout(c))

Spec == Init /\ [][Next]_vars /\ Fairness

---------------------------------------------------------------------------
(* Properties.                                                               *)

IsPrefixOf(s, t) == Len(s) <= Len(t) /\ s = SubSeq(t, 1, Len(s))
Refused(c) == IF Mode[c] = "send" THEN WriteJob(Name[c]) = "None"
              ELSE ReadJob(Name[c]) = "None"

(* Type invariant.                                                           *)
TypeOK ==
    /\ Len(toServer) <= MailBox /\ drops \in 0 .. MaxDrops
    /\ spc \in {"start", "stopped", "run", "parse", "write", "ack", "hung", "reboot"}
    /\ mclient \in Client /\ job \in Jobs /\ block \in Nat
    /\ job \in {"LoadCfg", "LoadFCfg"} => Len(got) <= MaxCfg
    /\ faults \in 0 .. MaxFaults /\ bound \in BOOLEAN
    /\ cur \in 0 .. MaxCfg /\ tries \in 0 .. 3 /\ early \in 0 .. MaxEarly
    /\ waited \in [Client -> 0 .. Patience] /\ hurried \in BOOLEAN
    /\ \A c \in Client :
         /\ cst[c] \in {"idle", "wait", "done", "failed", "killed"}
         /\ retry[c] \in 0 .. MaxRetry /\ pktN[c] \in Nat
    /\ closed \in {"none", "complete", "broken", "timeout"}

(* Flash that fails leaves a gap in firmware, a full buffer the end of a     *)
(* configuration out.                                                        *)
Writable == IF job = "LoadFW" THEN faults = 0 ELSE Size[mclient] <= MaxCfg

(* While it receives, the server holds the blocks of one client's file up to *)
(* the next, in order and without gaps, whatever is lost or repeated: the    *)
(* client that sends it is never more than that block ahead.                 *)
UploadIsPrefix ==
    spc = "write" =>
      /\ pktN[mclient] <= block
      /\ Writable => got = Units(mclient, 1, (block - 1) * Blk)

(* A transfer the server takes for complete is the whole file.               *)
CompleteIsWhole ==
    [][(WriteBlock /\ closed' = "complete" /\ spc' # "write" /\ Writable')
         => got' = Whole(mclient')]_vars

(* What a reader has collected is a prefix of what it asked for, and all of  *)
(* it when its run ends well.                                                *)
DownloadIsPrefix ==
    \A c \in Client : Mode[c] = "read" =>
      LET file == Served(ReadJob(Name[c]))
      IN  /\ IsPrefixOf(result[c], file)
          /\ cst[c] = "done" => result[c] = file

(* A run that its user did not hurry fails only when its file name is        *)
(* refused, as long as nothing was lost, no call failed and no timeout came  *)
(* early.                                                                    *)
Fails(c) == cst[c] = "wait" /\ cst'[c] = "failed" /\ ~hurried
Undisturbed == drops = 0 /\ faults = 0 /\ early = 0

NoSpuriousFailure ==
    [][\A c \in Client : Fails(c) /\ Undisturbed' => Refused(c)]_vars

(* Retries make such an upload survive losses, as long as they are fewer     *)
(* than the retries allowed, and than the timeouts of the tool after which   *)
(* the server gives up, too.                                                 *)
UploadSurvivesLoss ==
    [][\A c \in Client :
         /\ Fails(c) /\ Mode[c] = "send" /\ faults = 0 /\ early' = 0
         /\ drops < MaxRetry /\ drops < Patience
         => Refused(c)]_vars

(* Every run of the client program ends, also against a server that nobody   *)
(* can reach because bind failed (tftp_server.cpp:355).                      *)
EveryRunEnds == \A c \in Client : cst[c] = "wait" ~> cst[c] # "wait"

(* The server always comes back for the next request (main.cpp:43), unless   *)
(* start has failed ("Can't start TFTP srv", main.cpp:39).                   *)
ServerReturns == spc # "run" ~> spc \in {"run", "stopped"}

(* What is stored as the configuration or as firmware is one file and all of *)
(* it, also of runs that follow each other in haste, and of a configuration  *)
(* that asks the board for its CRC, which protects nothing then: blocks of   *)
(* two files, or one twice, never make up for one that is missing.           *)
StoredIsOneFile ==
    \A j \in {"LoadCfg", "LoadFW"} :
      stored[j] = <<>> \/ \E c \in Client : Mode[c] = "send" /\ stored[j] = Whole(c)

---------------------------------------------------------------------------
(* What the code's documentation says and the code does not do.              *)

(* on_close "is called, when transfer operation is complete"                 *)
(* (tftp_server.h:101): only a whole partition image replaces the partition. *)
PartitionIsWhole ==
    stored["LoadFCfg"] = <<>> \/ \E c \in Client : stored["LoadFCfg"] = Whole(c)

(* Blocks and ACKs that do not come are retried ("No ack/wrong ack,          *)
(* retrying", tftp_server.cpp:164; "Maximum number of retries in timeout     *)
(* cases", mstd.cfg.py:473): one lost datagram does not end a download.      *)
DownloadSurvivesLoss ==
    [][\A c \in Client : Fails(c) /\ Mode[c] = "read" /\ drops <= 1 => Refused(c)]_vars

(* "No ack/wrong ack, retrying" (tftp_server.cpp:164): what a reader that    *)
(* still waits is sent again after a timeout is the block.                   *)
RetrySendsBlock ==
    [][ReadTimeout /\ spc' = "ack" /\ cst[mclient] = "wait" => out'.op = "DATA"]_vars

(* "some clients repeat request several times" (tftp_server.cpp:98): what is *)
(* taken for a repeated write request comes from the client whose upload is  *)
(* under way.                                                                *)
RepeatIsSameClient == [][WriteRepeat => mclient' = mclient]_vars
=============================================================================
