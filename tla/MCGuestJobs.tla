---------------------------- MODULE MCGuestJobs ----------------------------
EXTENDS GuestJobs

CONSTANTS t1, c1, p1
=============================================================================
