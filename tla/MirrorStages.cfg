\* Chains of 2 to 12 stages, every length the planner can hand over up to 12:
\* both parities of each loop bound and the middle element of an odd chain occur.
SPECIFICATION Spec
CONSTANT Lengths = {2, 3, 4, 5, 6, 7, 8, 9, 10, 11, 12}
INVARIANTS TypeOK NothingLost Mirrored
