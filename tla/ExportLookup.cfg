SPECIFICATION LookupSpec
CONSTANTS
  Classes <- MCClasses
  Chain <- MCChain
  Within <- MCWithin
  PackageOf <- MCPackageOf
  OwnClass = "JavaToNativeExporter"
  Signatures = {"one", "other", "two"}
  NumParameters <- MCNumParameters
  Prefix <- MCPrefix
  Packages <- MCPackages
  Declarable <- MCDeclarable
  Annotatable = {"Outer", "Base"}
  MaxPolicies = 2
  Missing = Missing
  Null = Null
INVARIANTS
  LookupTypeOK
  AnswerExplained
PROPERTIES
  PolicyIsLocal
  SearchEnds
