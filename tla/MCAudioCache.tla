---------------------------- MODULE MCAudioCache ----------------------------
(* Instance of AudioCache for TLC.                                         *)
EXTENDS AudioCache, TLC

(* Tasks, achievements and hashes are interchangeable.                     *)
CacheSymmetry == Permutations(Tasks) \cup Permutations(Ids)
                    \cup Permutations(Hashes)
=============================================================================
