-------------------------- MODULE ConfigRefinement --------------------------
(* The configuration log implements the register of ConfigRegister.          *)
EXTENDS ConfigStore

(* The CRC is ideal: its word tells a record from every other, and is not    *)
(* what an interrupted word is left as.                                      *)
ASSUME CrcAssumption ==
    \A r \in Records : r[0] \notin Junk /\ \A s \in Records : s[0] = r[0] => s = r

RecordAt(c, o, n) == [i \in 0 .. n - 1 |-> c[o + i]]

(* load_config has not returned before the scan ends.                        *)
upBar == IF pc \in {"off", "scan"} THEN "off" ELSE IF cfgPat THEN "on" ELSE "bare"
savedBar == IF regular /\ newest >= 0
              THEN RecordAt(flash, newest, SizeField[flash[newest + 1]]) ELSE NoImage
pendingBar == IF job = "image" THEN img ELSE NoImage
triedBar == IF regular THEN tried ELSE {}
activeBar == IF pc \in {"off", "scan"} \/ config < 0
               THEN NoImage ELSE RecordAt(cfgFull, config, cfgSize)

Register == INSTANCE ConfigRegister
    WITH None <- NoImage, up <- upBar, reliable <- regular, saved <- savedBar,
         pending <- pendingBar, tried <- triedBar, active <- activeBar

(* As long as the log is regular every boot hands out the record of the last *)
(* save that returned NULL, or one cut short since: never an older one,      *)
(* never a mixture.  Of other logs, which is what `reliable` tells, the      *)
(* register promises only that a boot hands out a whole record or none.  In  *)
(* both a save changes the configuration in use only at the next boot        *)
(* (setup_data.cpp:49-142).                                                  *)
ImplementsRegister == Register!Spec
=============================================================================
