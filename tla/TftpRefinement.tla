--------------------------- MODULE TftpRefinement ---------------------------
(* Server, network and tool implement the service of FileService.            *)
EXTENDS TftpSystem

fileBar == [c \in Client |->
    IF Mode[c] = "send" THEN Whole(c) ELSE Served(ReadJob(Name[c]))]
placeBar == [c \in Client |->
    IF Mode[c] = "send" THEN WriteJob(Name[c]) ELSE ReadJob(Name[c])]
readersBar == {c \in Client : Mode[c] = "read"}

(* Firmware has a partition of its own; the buffer of a configuration is     *)
(* limited, and it needs the partition.  An empty file is neither.           *)
storableBar ==
    {c \in Client : /\ placeBar[c] = "LoadFW" \/ Size[c] <= MaxCfg
                    /\ placeBar[c] = "LoadFCfg" \/ Size[c] > 0
                    /\ placeBar[c] = "LoadCfg" => HasPartition}

openBar == IF spc = "write" THEN {<<mclient, job>>} ELSE {}
calmBar == drops = 0 /\ faults = 0 /\ early = 0

Service == INSTANCE FileService
    WITH Readers <- readersBar, File <- fileBar, Place <- placeBar,
         Storable <- storableBar, Places <- Loads, Raw <- "LoadFCfg",
         run <- cst, taken <- result, open <- openBar, held <- stored, calm <- calmBar,
         rushed <- hurried

(* One transfer after another: a run that reads ends well only with the      *)
(* whole file; what is stored is what the upload under way brought; and the  *)
(* file of a run that ended well, while the server may still have to take    *)
(* in the last block, is stored unless something goes wrong.  A run begun in *)
(* haste, before the server is back from the last, may fail with nothing     *)
(* lost, or take the last upload over, so that its file is stored in the     *)
(* other's place; it still stores nothing but its own file, and reads        *)
(* nothing but what it asked for (mstd.cfg.py:560-609,                       *)
(* tftp_server.cpp:80-180, tftp_ota_server.cpp:194).                         *)
ImplementsService == Service!Spec
=============================================================================
