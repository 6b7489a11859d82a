\* An agent and a reviewer code for one installation; two worker ends or changes.
SPECIFICATION LiveSpec
CONSTANTS
    MaxSecrets = 2
    maxInstallations = 2
    Callers <- MCCallers
    MaxLate = 1
    MaxEvents = 2
INVARIANT OneInstallation
PROPERTIES RunsWhileGranted FollowsAccess
