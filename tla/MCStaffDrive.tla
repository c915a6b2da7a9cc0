----------------------------- MODULE MCStaffDrive -----------------------------
EXTENDS StaffDrive
CONSTANTS c1, c2
=============================================================================
