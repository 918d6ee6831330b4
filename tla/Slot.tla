-------------------------------- MODULE Slot --------------------------------
(***************************************************************************)
(* What single_flight.py promises its callers, with none of its mechanism: *)
(* one rebuild slot per (root, project) pair, which a caller takes only    *)
(* when nobody has it (try_acquire returned True) and which is freed by    *)
(* its holder (release) or by the death of the holder's process.           *)
(***************************************************************************)
CONSTANTS Thread,   \* the callers of try_acquire / release
          None      \* "nobody"

VARIABLE holder     \* the thread running a rebuild, or None

Init == holder = None

Acquire(t) == /\ holder = None
              /\ holder' = t

Free == /\ holder # None
        /\ holder' = None

Next == (\E t \in Thread : Acquire(t)) \/ Free

Spec == Init /\ [][Next]_holder
=============================================================================
