------------------------- MODULE MCNotificationDelivery -------------------------
EXTENDS NotificationDelivery
CONSTANTS d1, d2
=============================================================================
