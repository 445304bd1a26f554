------------------------------- MODULE MCPages -------------------------------
\* Two workers at work on a list of three networks, which one page does not hold.
EXTENDS Pages
=============================================================================
