------------------------------- MODULE Absent -------------------------------
CONSTANT None   \* Python's None: a value like no other
=============================================================================
