\* Three processes race for the first use of the key; one of them is started
\* with the environment variable.  A call may always follow a finished, crashed
\* or failed one; three keys leave room for more than one process to generate.
CONSTANTS
    Proc = {p1, p2, p3}
    EnvProc = {p3}
    Key = {k1, k2, k3}
SPECIFICATION KeySpec
INVARIANTS OneKey EmptyIsUnfinished
