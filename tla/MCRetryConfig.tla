------------------------------ MODULE MCRetryConfig ------------------------------
EXTENDS RetryConfig

\* alertsLimit may be set to one value, retryCount and timeInterval to several.
MCMax == [retryCount |-> 2, timeInterval |-> 1, alertsLimit |-> 1]

File(e, c) == [retryEnable |-> e, count |-> c]

\* No file; one within the limits; one above them; one without a count.
MCBootFile ==
    {Lost,
     File(TRUE, [retryCount |-> 1, timeInterval |-> 1, alertsLimit |-> 0]),
     File(TRUE, [retryCount |-> 3, timeInterval |-> 9, alertsLimit |-> 1]),
     File(FALSE, [retryCount |-> 2, timeInterval |-> Absent, alertsLimit |-> 3])}
================================================================================
