SPECIFICATION Spec
CONSTANTS
  c1 = c1
  c2 = c2
  Containers <- MCContainers
  Releases <- MCReleases
  Resume <- MCResume
SYMMETRY Symmetry
INVARIANT ServesMigrated
 
 
INVARIANT ServedSchemaHasEntities
