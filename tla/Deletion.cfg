SPECIFICATION FairSpec
CONSTANTS
  Users = {u1, u2}
  NumServices = 2
  Workers = {w1, w2}
  MaxFailures = 1
  MaxAborts = 1
  NoUser = NoUser
INVARIANTS TypeOK UserRowOutlivesData PendingAccountHasOpenJob
PROPERTIES DeletionCompletes ImplementsContract
