\* Every short sequence of calls, family by family, against the tables.
SPECIFICATION StoreSpec
CONSTANTS
    Families <- MCFamilies
    MaxId = 3
    MaxTime = 3
VIEW Contents
 
PROPERTY ImplementsPostgres
CHECK_DEADLOCK FALSE
