SPECIFICATION Spec
CONSTANTS
  Admins = {a1}
  Nobody = Nobody
  Blank = ""
  Nodes <- MCNodes
  Type <- MCType
  RadioHtml <- MCRadioHtml
  Within <- MCWithin
  UserChoices <- MCUserChoices
  GroupChoices <- MCGroupChoices
  TypedIds <- MCTypedIds
  Lines <- MCLines
  MaxEdits = 2
  MaxSubmits = 3
CHECK_DEADLOCK FALSE
INVARIANTS SavedUsersAreShown
