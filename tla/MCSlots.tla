------------------------------- MODULE MCSlots -------------------------------
(* Small instances of Slots for TLC.                                       *)
EXTENDS Slots

CONSTANTS m1, m2, m3, f1, f2, f3, f4, x1

(* A floppy drive and two hard disk drives: two media for the floppy       *)
(* drive, one that is attached as a directory, and a hard disk of          *)
(* amiga_disk_devices.  unmountAll skips elements from three on.           *)
MixDrives  == [DF |-> 1, HD |-> 2, CD |-> 0]
MixHome    == [m \in {m1, m2, m3} |-> IF m = m2 THEN 2 ELSE 0]
MixFiles   == [m \in {m1, m2, m3} |-> IF m = m1 THEN <<f1>> ELSE <<>>]
MixDefault == [m \in {m1, m2, m3} |-> IF m = m1 THEN f1 ELSE None]
MixDirs    == {m2}
MixDevice  == [x \in {x1} |-> 1]

(* Two floppy drives, a hard disk drive and a CD drive, each kind with a   *)
(* medium; the CD's config names a file that is not there.                 *)
FourDrives == [DF |-> 2, HD |-> 1, CD |-> 1]
AllHome    == [m \in {m1, m2, m3} |-> CASE m = m1 -> 0 [] m = m2 -> 2 [] m = m3 -> 3]
AllFiles   == [m \in {m1, m2, m3} |-> CASE m = m1 -> <<f1, f2>> [] m = m2 -> <<f3>> [] m = m3 -> <<f4>>]
AllDefault == [m \in {m1, m2, m3} |-> CASE m = m1 -> f1 [] m = m2 -> f3 [] m = m3 -> Missing]
AllDevice  == [x \in {x1} |-> 0]
=============================================================================
