------------------------------ MODULE MCAppServer ------------------------------
EXTENDS AppServer

CONSTANTS d1, d2
===============================================================================
