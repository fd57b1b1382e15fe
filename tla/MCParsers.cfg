SPECIFICATION Spec
INVARIANTS
  UriExactlyUris UriFieldsAreComponents UriThrowsOnlyOnEmptyPort
  RequestEndsAtBlankLine RequestElements
  ResponseEndsAtBlankLine ResponseElements ResponseFlagsAreSaid
CHECK_DEADLOCK FALSE
