CONSTANTS
  WebhookEvents <- SomeWebhookEvents
  ListedEvents  <- SomeListedEvents
  MaxSends = 2
  MaxPublications = 2
SPECIFICATION LiveSpec
INVARIANTS
  RecipientIsTheFold
  LabelTellsTheEvents
  ShownFailureIsStored
PROPERTIES
  FailureStaysShown
