---------------------------- MODULE FileService ----------------------------
(* What the bootloader's TFTP server and mstd.cfg.py promise together to a   *)
(* user who moves one file after another, without a word about datagrams: a  *)
(* reader's file grows block by block and its run ends well only with the    *)
(* whole of it; a file is stored only while it is uploaded, and whole, and   *)
(* while nothing goes wrong a run that ends well has stored it.  A run that  *)
(* begins in haste, before the last upload is closed or the server is back,  *)
(* may fail, and it may take that upload over: then its file, not the other, *)
(* goes to the other's place.                                                *)
EXTENDS Naturals, Sequences

CONSTANTS
    Client,    \* the runs of the tool
    Readers,   \* those that read a file; the others store one
    Blk,       \* what a full block holds
    File,      \* [Client -> the file it is to move]
    Place,     \* [Client -> where that is kept], "None" if its name is refused
    Storable,  \* the runs whose file is one that its place can keep
    Places,    \* where files are stored
    Raw        \* the one of them that keeps also a part of a file

VARIABLES
    run,       \* [Client -> state of the run]
    taken,     \* [Client -> what a reader has]
    open,      \* the run whose file the server is receiving and the place it
               \* goes to, as a set of at most one pair
    held,      \* [Places -> what is stored there]
    calm,      \* nothing was lost, failed or came too early so far
    rushed     \* the last run began in haste

fvars == <<run, taken, open, held, calm, rushed>>

Init ==
    /\ run = [c \in Client |-> "idle"] /\ taken = [c \in Client |-> <<>>]
    /\ open = {} /\ held = [p \in Places |-> <<>>] /\ calm = TRUE
    /\ rushed = FALSE

Ends(c, how) == run[c] = "wait" /\ run' = [run EXCEPT ![c] = how]
Alone(c) == \A d \in Client \ {c} : run[d] # "wait"
MayDisturb == calm' \in {calm, FALSE}

Begin(c) ==
    /\ run[c] = "idle" /\ run' = [run EXCEPT ![c] = "wait"]
    /\ Alone(c) /\ rushed' \in BOOLEAN /\ (open = {} \/ rushed')
    /\ UNCHANGED <<taken, open, held, calm>>

---------------------------------------------------------------------------
(* A reader takes the next block; a short one is the last.                   *)
NextBlock(c) ==
    LET from == Len(taken[c])
        to == IF from + Blk < Len(File[c]) THEN from + Blk ELSE Len(File[c])
    IN  SubSeq(File[c], from + 1, to)

Take(c) ==
    /\ c \in Readers /\ Place[c] # "None" /\ run[c] = "wait"
    /\ taken' = [taken EXCEPT ![c] = @ \o NextBlock(c)]
    /\ IF Len(NextBlock(c)) < Blk THEN Ends(c, "done") ELSE UNCHANGED run
    /\ UNCHANGED <<open, held, calm, rushed>>

---------------------------------------------------------------------------
(* An upload.                                                                *)

Undelayed(c) == rushed \/ Alone(c)

Open(c) ==
    /\ c \notin Readers /\ Place[c] # "None" /\ run[c] # "idle"
    /\ Undelayed(c) /\ open = {} /\ open' = {<<c, Place[c]>>}
    /\ UNCHANGED <<run, taken, held, calm, rushed>>

TakeOver(c) ==
    /\ c \notin Readers /\ run[c] # "idle" /\ rushed
    /\ \E d \in Client \ {c}, p \in Places :
         open = {<<d, p>>} /\ open' = {<<c, p>>} /\ run[d] # "wait"
    /\ UNCHANGED <<run, taken, held, calm, rushed>>

(* The tool reports success as soon as it has sent the last block.           *)
Finish(c) ==
    /\ c \notin Readers /\ Ends(c, "done")
    /\ ~rushed => Place[c] # "None" /\ (calm => open = {<<c, Place[c]>>})
    /\ UNCHANGED <<taken, open, held, calm, rushed>>

(* What an upload leaves at place p that something ended before its time.    *)
Unfinished(c, p) ==
    \/ UNCHANGED held
    \/ /\ p = Raw
       /\ held' = [held EXCEPT ![Raw] = held'[Raw]]
       /\ c \in Storable /\ p = Place[c] =>
            \E n \in 0 .. Len(File[c]) : held'[Raw] = SubSeq(File[c], 1, n)

Close(c, p) ==
    /\ open = {<<c, p>>} /\ open' = {} /\ Undelayed(c) /\ MayDisturb
    /\ \/ held' = [held EXCEPT ![p] = File[c]]
       \/ /\ ~(calm' /\ ~rushed /\ run[c] = "done" /\ c \in Storable)
          /\ Unfinished(c, p)
    /\ UNCHANGED <<run, taken, rushed>>

---------------------------------------------------------------------------
(* A run fails if its file is refused, it was begun in haste or something    *)
(* goes wrong, and its user may stop it.                                     *)
Fail(c) ==
    /\ Ends(c, "failed") /\ MayDisturb /\ (Place[c] = "None" \/ rushed \/ ~calm')
    /\ UNCHANGED <<taken, open, held, rushed>>

Stop(c) == Ends(c, "killed") /\ UNCHANGED <<taken, open, held, calm, rushed>>

(* A loss, an error, a timeout that comes early; or a reset.                 *)
Disturb ==
    /\ calm' = FALSE /\ open' \in {open, {}}
    /\ UNCHANGED <<run, taken, held, rushed>>

Next ==
    \/ Disturb
    \/ \E c \in Client :
         \/ Begin(c) \/ Take(c) \/ Open(c) \/ TakeOver(c) \/ Finish(c) \/ Fail(c) \/ Stop(c)
         \/ \E p \in Places : Close(c, p)

Spec == Init /\ [][Next]_fvars
=============================================================================
