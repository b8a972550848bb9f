------------------------------- MODULE Option -------------------------------
CONSTANT None   \* the absent value of an Option
=============================================================================
