SPECIFICATION Spec
CONSTANTS
  Publishers = {"ci", "hotfix"}
  Replicas = {"pdp", "dev"}
  Stored = {"pdp"}
  Bundles <- OneOfEach
  Buckets <- AnyBucket
  MaxRuns = 2
  MaxVersions = 3
INVARIANTS
  TypeOK
  NeverBehind
  RunsWhatItPulled
  AllowsByPolicyOnly
PROPERTIES
  PublishedStays
