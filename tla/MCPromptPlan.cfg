\* Two users, two texts of which one extends the other, two core memories in all,
\* replies of at most two actions.
CONSTANTS
  Users <- TwoUsers
  Texts <- TwoTexts
  Uuids <- TwoUuids
  MaxActions = 2
SPECIFICATION PromptSpec
INVARIANTS PromptTypeOK CoreIdsDistinct FactsDistinct
 
